---- MODULE Spec2Model ----
(***************************************************************************)
(* Verification model of the RecTools sequence models:                     *)
(*   rectools/models/sasrec.py   (transformer facade, data preparator,     *)
(*                                loss calculators)                        *)
(*   rectools/models/nn/dssm.py  (DSSM facade)                             *)
(*                                                                         *)
(* Internal ids are zero based as in the code; TLA+ sequences are one      *)
(* based, so the internal id of the k-th entry of an id map is k - 1.      *)
(***************************************************************************)
EXTENDS Integers, Sequences, FiniteSets, TLC

VARIABLES
    data_preparator,    \* SessionEncoderDataPreparatorBase attributes
    dataset,            \* the Dataset handed to the data pipeline
    processed_dataset,  \* result of process_dataset_train
    sequence_dataset,   \* SequenceDataset held by the train dataloader
    batch,              \* the list of (session, weights) handed to a collate function
    batch_dict,         \* the dictionary a collate function returned
    calculator,         \* the loss calculator of the lightning module
    train_logits,       \* the logits handed to a loss calculator
    train_loss,         \* what the loss calculator computed
    model_kind,         \* which facade the program constructed
    sasrec,             \* TransformerModelBase attributes
    dssm,               \* DSSMModel attributes
    heap,               \* the objects the facades refer to, by object id
    frame,              \* locals of the running _fit call
    outcome,            \* how the last facade call ended
    history,            \* what completed fits left behind
    pc                  \* position of the running call sequence

dataVars == <<dataset, processed_dataset, sequence_dataset>>

batchVars == <<batch, batch_dict>>

lossVars == <<calculator, train_logits, train_loss>>

facadeVars == <<model_kind, sasrec, dssm, heap, frame, outcome, history>>

vars == <<data_preparator, dataset, processed_dataset, sequence_dataset, batch, batch_dict,
          calculator, train_logits, train_loss, model_kind, sasrec, dssm, heap, frame, outcome,
          history, pc>>

(***************************************************************************)
(* Bounds of the model.                                                    *)
(***************************************************************************)
MaxSessionLen == 2      \* session_max_len ranges over 1..MaxSessionLen
MaxRows == 4            \* rows of an interaction log

NegativeCounts == {1, 2}

ExtUsers == {"u1", "u2"}
ExtItems == {"a", "b"}
WeightPatterns == {"ones", "index"}

PADDING_VALUE == "PAD"

(***************************************************************************)
(* Generic sequence helpers.                                               *)
(***************************************************************************)
Range(s) == {s[i] : i \in 1..Len(s)}

Min2(a, b) == IF a < b THEN a ELSE b

Max2(a, b) == IF a > b THEN a ELSE b

Zeros(n) == [i \in 1..n |-> 0]

\* Python s[a:] for a >= 0 (a zero based).
DropFirst(s, a) == SubSeq(s, a + 1, Len(s))

\* Python s[-k:] for k >= 1.
LastK(s, k) == SubSeq(s, Max2(1, Len(s) - k + 1), Len(s))

\* Python s[:-1].
AllButLast(s) == SubSeq(s, 1, Len(s) - 1)

\* Optional values: None, or Some(v) holding v.  An attribute that a
\* constructor only annotates does not exist until it is assigned; it is
\* None until then.
None == <<>>

Some(v) == <<v>>

IsNone(o) == o = <<>>

Val(o) == o[1]

(***************************************************************************)
(* Interaction tables (pandas DataFrame with the columns User, Item,       *)
(* Datetime, Weight) are sequences of rows.                                *)
(***************************************************************************)
Row(u, i, dt, w) == [user |-> u, item |-> i, datetime |-> dt, weight |-> w]

\* DataFrame.sort_values(Columns.Datetime): rows in ascending datetime order.
sort_values(df) ==
    LET n == Len(df)
        rank(i) == Cardinality({j \in 1..n :
                        \/ df[j].datetime < df[i].datetime
                        \/ (df[j].datetime = df[i].datetime /\ j < i)}) + 1
    IN [k \in 1..n |-> df[CHOOSE i \in 1..n : rank(i) = k]]

\* Series.value_counts()[u]: number of rows of user u.
value_counts(df, u) == Cardinality({j \in 1..Len(df) : df[j].user = u})

\* df[df[col].isin(values)] for the User and the Item column.
filter_users(df, users) ==
    LET keep(r) == r.user \in users IN SelectSeq(df, keep)

filter_items(df, items) ==
    LET keep(r) == r.item \in items IN SelectSeq(df, keep)

\* DataFrame.groupby(Columns.User).tail(k): the last k rows of every user,
\* in the order of the table.
RECURSIVE groupby_tail_from(_, _, _)
groupby_tail_from(df, k, i) ==
    IF i > Len(df) THEN <<>>
    ELSE LET later == Cardinality({j \in (i + 1)..Len(df) : df[j].user = df[i].user})
         IN (IF later < k THEN <<df[i]>> ELSE <<>>) \o groupby_tail_from(df, k, i + 1)

groupby_tail(df, k) == groupby_tail_from(df, k, 1)

(***************************************************************************)
(* IdMap: the sequence of external ids ordered by internal id.             *)
(***************************************************************************)
RECURSIVE unique_in_order(_)
unique_in_order(values) ==
    IF values = <<>> THEN <<>>
    ELSE LET init == unique_in_order(AllButLast(values))
             v == values[Len(values)]
         IN IF v \in Range(init) THEN init ELSE Append(init, v)

\* IdMap.from_values: distinct values in the order of first appearance.
IdMap_from_values(values) == unique_in_order(values)

\* IdMap.add_ids: the ids not yet known are appended in order of appearance.
IdMap_add_ids(id_map, values) == unique_in_order(id_map \o values)

IdMap_size(id_map) == Len(id_map)

\* IdMap.convert_to_internal of one known external id.
to_internal(id_map, ext) == (CHOOSE k \in 1..Len(id_map) : id_map[k] = ext) - 1

\* IdMap.convert_to_external of one internal id.
to_external(id_map, internal) == id_map[internal + 1]

\* IdMap.get_sorted_internal().
get_sorted_internal(id_map) == [k \in 1..Len(id_map) |-> k - 1]

\* IdMap.get_external_sorted_by_internal().
get_external_sorted_by_internal(id_map) == id_map

Column(df, col) == [k \in 1..Len(df) |-> df[k][col]]

\* Interactions.from_raw: the same rows with both id columns made internal.
Interactions_from_raw(df, user_id_map, item_id_map) ==
    [k \in 1..Len(df) |->
        Row(to_internal(user_id_map, df[k].user), to_internal(item_id_map, df[k].item),
            df[k].datetime, df[k].weight)]

\* Dataset.get_raw_interactions: the rows with both id columns made external.
get_raw_interactions(ds) ==
    [k \in 1..Len(ds.interactions) |->
        Row(to_external(ds.user_id_map, ds.interactions[k].user),
            to_external(ds.item_id_map, ds.interactions[k].item),
            ds.interactions[k].datetime, ds.interactions[k].weight)]

\* Item features: kind is one of "None", "SparseCat" (sparse with categorical
\* columns), "SparseNoCat" (sparse without categorical columns), "Dense";
\* rows[k] names the item whose feature values row k holds ("zeros" for an
\* all-zero row).
ItemFeatureKinds == {"None", "SparseCat", "SparseNoCat", "Dense"}

Features(kind, rows) == [kind |-> kind, rows |-> rows]

NoFeatures == Features("None", <<>>)

\* Dataset.construct: id maps in order of first appearance in the raw table;
\* user_features is "None" or "Sparse".
Dataset_construct(raw, item_features_kind, user_features) ==
    LET user_id_map == IdMap_from_values(Column(raw, "user"))
        item_id_map == IdMap_from_values(Column(raw, "item"))
    IN [user_id_map |-> user_id_map,
        item_id_map |-> item_id_map,
        interactions |-> Interactions_from_raw(raw, user_id_map, item_id_map),
        item_features |-> IF item_features_kind = "None" THEN NoFeatures
                          ELSE Features(item_features_kind, item_id_map),
        user_features |-> user_features]

\* Dataset(user_id_map, item_id_map, interactions, item_features=...).
Dataset(user_id_map, item_id_map, interactions, item_features) ==
    [user_id_map |-> user_id_map,
     item_id_map |-> item_id_map,
     interactions |-> interactions,
     item_features |-> item_features,
     user_features |-> "None"]

(***************************************************************************)
(* SessionEncoderDataPreparatorBase.                                       *)
(*                                                                         *)
(* item_id_map and extra_token_ids are only annotated by __init__ and are   *)
(* None until process_dataset_train assigns them; n_negatives is None or   *)
(* Some(n).                                                                *)
(***************************************************************************)
\* Mutant: the constructor assigns a vocabulary of the extra tokens.
DataPreparator_with_vocabulary(session_max_len, n_negatives, train_min_user_interactions) ==
    [session_max_len |-> session_max_len,
     n_negatives |-> n_negatives,
     train_min_user_interactions |-> train_min_user_interactions,
     item_extra_tokens |-> <<PADDING_VALUE>>,
     item_id_map |-> Some(<<PADDING_VALUE>>),
     extra_token_ids |-> Some(<<0>>)]

DataPreparator(session_max_len, n_negatives, train_min_user_interactions) ==
    [session_max_len |-> session_max_len,
     n_negatives |-> n_negatives,
     train_min_user_interactions |-> train_min_user_interactions,
     item_extra_tokens |-> <<PADDING_VALUE>>,
     item_id_map |-> None,
     extra_token_ids |-> None]

n_item_extra_tokens(self) == Len(self.item_extra_tokens)

get_known_items_sorted_internal_ids(self) ==
    DropFirst(get_sorted_internal(Val(self.item_id_map)), n_item_extra_tokens(self))

get_known_item_ids(self) ==
    DropFirst(get_external_sorted_by_internal(Val(self.item_id_map)), n_item_extra_tokens(self))

\* Mutant: users with too few interactions are not dropped.
filter_interactions_all_users(self, ds) ==
    groupby_tail(sort_values(get_raw_interactions(ds)), self.session_max_len + 1)

\* Mutant: the tail is taken without sorting by datetime first.
filter_interactions_unsorted(self, ds) ==
    LET interactions == get_raw_interactions(ds)
        users == {u \in Range(Column(interactions, "user")) :
                    value_counts(interactions, u) >= self.train_min_user_interactions}
    IN groupby_tail(filter_users(interactions, users), self.session_max_len + 1)

\* process_dataset_train, lines 733-739: the retained interactions.
filter_interactions(self, ds) ==
    LET interactions == get_raw_interactions(ds)
        users == {u \in Range(Column(interactions, "user")) :
                    value_counts(interactions, u) >= self.train_min_user_interactions}
        filtered == filter_users(interactions, users)
    IN groupby_tail(sort_values(filtered), self.session_max_len + 1)

\* Mutant: the items come first and the extra tokens are added after them.
build_item_id_map_items_first(self, interactions) ==
    IdMap_add_ids(IdMap_from_values(Column(interactions, "item")), self.item_extra_tokens)

\* process_dataset_train, lines 744-745: extra tokens first, then the items
\* of the retained interactions.
build_item_id_map(self, interactions) ==
    IdMap_add_ids(IdMap_from_values(self.item_extra_tokens), Column(interactions, "item"))

\* process_dataset_train, lines 755-768: feature rows in the order of the new
\* item id map, below one all-zero row per extra token.
reproject_item_features(self, ds, item_id_map) ==
    LET internal_ids == [k \in 1..(Len(item_id_map) - n_item_extra_tokens(self)) |->
                            to_internal(ds.item_id_map,
                                        item_id_map[k + n_item_extra_tokens(self)])]
        sorted_item_features == [k \in 1..Len(internal_ids) |->
                                    ds.item_features.rows[internal_ids[k] + 1]]
        extra_token_feature_values == [k \in 1..n_item_extra_tokens(self) |-> "zeros"]
    IN Features(ds.item_features.kind, extra_token_feature_values \o sorted_item_features)

\* process_dataset_train: raises on dense item features before anything is
\* assigned; otherwise returns the processed dataset and assigns item_id_map
\* and extra_token_ids (self is the preparator after the call).
process_dataset_train(self, ds) ==
    LET interactions == filter_interactions(self, ds)
        user_id_map == IdMap_from_values(Column(interactions, "user"))
        item_id_map == build_item_id_map(self, interactions)
        raises == ds.item_features.kind = "Dense"
        item_features == IF ds.item_features.kind = "None" THEN NoFeatures
                         ELSE reproject_item_features(self, ds, item_id_map)
        processed == Dataset(user_id_map, item_id_map,
                             Interactions_from_raw(interactions, user_id_map, item_id_map),
                             item_features)
        extra_token_ids == [k \in 1..Len(self.item_extra_tokens) |->
                                to_internal(processed.item_id_map, self.item_extra_tokens[k])]
    IN IF raises
       THEN [raises |-> TRUE, dataset |-> ds, self |-> self]
       ELSE [raises |-> FALSE,
             dataset |-> processed,
             self |-> [self EXCEPT !.item_id_map = Some(processed.item_id_map),
                                   !.extra_token_ids = Some(extra_token_ids)]]

(***************************************************************************)
(* SequenceDataset.from_interactions: one session per user, users in       *)
(* ascending internal id, each session in ascending datetime.              *)
(***************************************************************************)
RECURSIVE sorted_users_from(_, _)
sorted_users_from(users, k) ==
    IF users = {} THEN <<>>
    ELSE IF k \in users THEN <<k>> \o sorted_users_from(users \ {k}, k + 1)
         ELSE sorted_users_from(users, k + 1)

SequenceDataset_from_interactions(interactions) ==
    LET sorted == sort_values(interactions)
        users == sorted_users_from(Range(Column(sorted, "user")), 0)
        rows_of(u) == filter_users(sorted, {u})
    IN [sessions |-> [k \in 1..Len(users) |-> Column(rows_of(users[k]), "item")],
        weights |-> [k \in 1..Len(users) |-> Column(rows_of(users[k]), "weight")]]

\* get_dataloader_train / get_dataloader_recommend: both wrap the sessions
\* of the dataset's interactions.
get_dataloader_train(self, processed) == SequenceDataset_from_interactions(processed.interactions)

get_dataloader_recommend(self, ds) == SequenceDataset_from_interactions(ds.interactions)

(***************************************************************************)
(* SASRecDataPreparator._collate_fn_train and _collate_fn_recommend.       *)
(***************************************************************************)
\* numpy: row[start:] = values for a row of length n and start <= 0, the
\* form of lines 920-922 and 939.  A negative start counts from the end and
\* is clipped to the row; start 0 is the whole row.  The values must have
\* the length of the slice, or length 1 (broadcast); otherwise numpy raises.
slice_len(n, start) == IF start < 0 THEN Min2(n, 0 - start) ELSE n

slice_assign_raises(n, start, values) ==
    /\ Len(values) # slice_len(n, start)
    /\ Len(values) # 1

slice_assign(row, start, values) ==
    LET n == Len(row)
        m == slice_len(n, start)
    IN [j \in 1..n |->
            IF j <= n - m THEN row[j]
            ELSE IF Len(values) = 1 THEN values[1]
            ELSE values[j - (n - m)]]

\* One iteration of the loop of lines 919-922.
collate_row_raises(self, ses) ==
    slice_assign_raises(self.session_max_len, 1 - Len(ses), AllButLast(ses))

collate_x(self, ses) ==
    slice_assign(Zeros(self.session_max_len), 1 - Len(ses), AllButLast(ses))

\* Mutant: the targets are not shifted by one.
collate_y_unshifted(self, ses) ==
    slice_assign(Zeros(self.session_max_len), 1 - Len(ses), AllButLast(ses))

collate_y(self, ses) ==
    slice_assign(Zeros(self.session_max_len), 1 - Len(ses), DropFirst(ses, 1))

\* Mutant: the weight rows start as ones instead of zeros.
collate_yw_ones(self, ses_weights) ==
    slice_assign([j \in 1..self.session_max_len |-> 1], 1 - Len(ses_weights),
                 DropFirst(ses_weights, 1))

collate_yw(self, ses_weights) ==
    slice_assign(Zeros(self.session_max_len), 1 - Len(ses_weights), DropFirst(ses_weights, 1))

\* torch.randint(low, high, size=(batch_size, session_max_len, n_negatives)):
\* every tensor of that shape with entries in [low, high); raises when the
\* range is empty.
randint_raises(low, high) == low >= high

\* Mutant: sampling starts at id 0.
negatives_low_zero(self) == 0 * n_item_extra_tokens(self)

\* The bounds handed to torch.randint (lines 928-929).
negatives_low(self) == n_item_extra_tokens(self)

negatives_high(self) == IdMap_size(Val(self.item_id_map))

randint(low, high, batch_size, session_max_len, n_negatives) ==
    [1..batch_size -> [1..session_max_len -> [1..n_negatives -> low..(high - 1)]]]

\* The batch dictionary without "negatives" (lines 915-924).
collate_xyw(self, b) ==
    [raises |-> FALSE,
     x |-> [i \in 1..Len(b) |-> collate_x(self, b[i].ses)],
     y |-> [i \in 1..Len(b) |-> collate_y(self, b[i].ses)],
     yw |-> [i \in 1..Len(b) |-> collate_yw(self, b[i].ses_weights)],
     negatives |-> None]

Raised == [raises |-> TRUE, x |-> <<>>, y |-> <<>>, yw |-> <<>>, negatives |-> None]

\* _collate_fn_train: the set of dictionaries the call can return (one per
\* outcome of the random sampling); {Raised} when it raises.
_collate_fn_train(self, b) ==
    IF \E i \in 1..Len(b) : collate_row_raises(self, b[i].ses)
    THEN {Raised}
    ELSE IF IsNone(self.n_negatives)
    THEN {collate_xyw(self, b)}
    ELSE IF IsNone(self.item_id_map)
            \/ randint_raises(negatives_low(self), negatives_high(self))
    THEN {Raised}
    ELSE {[collate_xyw(self, b) EXCEPT !.negatives = Some(negatives)] :
            negatives \in randint(negatives_low(self), negatives_high(self),
                                  Len(b), self.session_max_len, Val(self.n_negatives))}

\* Mutant: the first session_max_len items of the session are kept.
_collate_fn_recommend_first_items(self, b) ==
    {[raises |-> FALSE,
      x |-> [i \in 1..Len(b) |->
                slice_assign(Zeros(self.session_max_len), 0 - Len(b[i].ses),
                             SubSeq(b[i].ses, 1, Min2(Len(b[i].ses), self.session_max_len)))],
      y |-> <<>>, yw |-> <<>>, negatives |-> None]}

\* _collate_fn_recommend (lines 937-940).
_collate_fn_recommend(self, b) ==
    IF \E i \in 1..Len(b) :
            slice_assign_raises(self.session_max_len, 0 - Len(b[i].ses),
                                LastK(b[i].ses, self.session_max_len))
    THEN {Raised}
    ELSE {[raises |-> FALSE,
           x |-> [i \in 1..Len(b) |->
                    slice_assign(Zeros(self.session_max_len), 0 - Len(b[i].ses),
                                 LastK(b[i].ses, self.session_max_len))],
           y |-> <<>>, yw |-> <<>>, negatives |-> None]}

(***************************************************************************)
(* Loss calculators.                                                       *)
(*                                                                         *)
(* Tensor entries are floats: F(v) is the finite value v / 1000 and NaN    *)
(* is not-a-number, which every arithmetic operation propagates and every  *)
(* comparison answers False for.                                           *)
(***************************************************************************)
NaN == <<"nan", 0>>

F(v) == <<"f", v>>

IsNaN(a) == a[1] = "nan"

fval(a) == a[2]

\* a * b for a float a and an integer (or 0/1 mask) factor b.
fscale(a, b) == IF IsNaN(a) THEN NaN ELSE F(fval(a) * b)

fadd(a, b) == IF IsNaN(a) \/ IsNaN(b) THEN NaN ELSE F(fval(a) + fval(b))

\* a / n for an integer n >= 1.
fdiv(a, n) == IF IsNaN(a) THEN NaN ELSE F(fval(a) \div n)

fpositive(a) == ~IsNaN(a) /\ fval(a) > 0

RECURSIVE fsum(_)
fsum(values) ==
    IF values = <<>> THEN F(0) ELSE fadd(fsum(AllButLast(values)), values[Len(values)])

\* log(1 + exp(v)) on the logit values of the model, in thousandths.
softplus(a) ==
    IF IsNaN(a) THEN NaN
    ELSE CASE fval(a) = -1329 -> F(235)
           [] fval(a) = -1122 -> F(282)
           [] fval(a) = -1000 -> F(313)
           [] fval(a) = -383 -> F(520)
           [] fval(a) = -144 -> F(624)
           [] fval(a) = 0 -> F(693)
           [] fval(a) = 1000 -> F(1313)

fneg(a) == IF IsNaN(a) THEN NaN ELSE F(0 - fval(a))

\* torch.nn.functional.binary_cross_entropy_with_logits(reduction="none")
\* for one entry: softplus(-logit) against target 1, softplus(logit)
\* against target 0.
binary_cross_entropy_with_logits(logit, target) ==
    IF target = 1 THEN softplus(fneg(logit)) ELSE softplus(logit)

\* torch.nn.functional.cross_entropy(ignore_index=0, reduction="none") for
\* one position of a two-class catalog (class 0 is PAD, class 1 the item):
\* 0 for an ignored target, else log-sum-exp minus the target's logit.
cross_entropy(logits, target) ==
    IF target = 0 THEN F(0)
    ELSE IF IsNaN(logits[1]) \/ IsNaN(logits[2]) THEN NaN
    ELSE softplus(F(fval(logits[1]) - fval(logits[2])))

\* _calc_softmax_loss, lines 1004-1007: per-position cross entropy times the
\* interaction weight.
softmax_terms(y, w, logits) ==
    [j \in 1..Len(y) |-> fscale(cross_entropy(logits[j], y[j]), w[j])]

\* _calc_softmax_loss, lines 1008-1009: the sum of the terms and the number
\* of positive terms it is divided by.
_calc_softmax_loss(y, w, logits) ==
    LET loss == softmax_terms(y, w, logits)
    IN [terms |-> loss,
        sum |-> fsum(loss),
        n |-> Cardinality({j \in 1..Len(loss) : fpositive(loss[j])})]

\* _calc_bce_loss, lines 1049-1055: logits[j] = <<positive, negative>>; the
\* mean of the entry losses times the mask (y != 0) times the weight.
bce_terms(y, w, logits) ==
    [j \in 1..Len(y) |->
        LET mask == IF y[j] # 0 THEN 1 ELSE 0
            mean == fdiv(fadd(binary_cross_entropy_with_logits(logits[j][1], 1),
                              binary_cross_entropy_with_logits(logits[j][2], 0)), 2)
        IN fscale(fscale(mean, mask), w[j])]

\* _calc_bce_loss, line 1056: the sum of the terms and the number of
\* unmasked positions it is divided by.
_calc_bce_loss(y, w, logits) ==
    LET loss == bce_terms(y, w, logits)
    IN [terms |-> loss,
        sum |-> fsum(loss),
        n |-> Cardinality({j \in 1..Len(y) : y[j] # 0})]

(***************************************************************************)
(* gBCE.  Rationals <<numerator, denominator>> in lowest terms carry the   *)
(* sampling rate alpha and the exponent beta.                              *)
(***************************************************************************)
RECURSIVE Gcd(_, _)
Gcd(a, b) == IF b = 0 THEN a ELSE Gcd(b, a % b)

Abs(a) == IF a < 0 THEN 0 - a ELSE a

Rat(num, den) ==
    LET g == Gcd(Abs(num), Abs(den))
        sign == IF den < 0 THEN -1 ELSE 1
    IN <<sign * (num \div g), sign * (den \div g)>>

RatAdd(a, b) == Rat(a[1] * b[2] + b[1] * a[2], a[2] * b[2])

RatSub(a, b) == Rat(a[1] * b[2] - b[1] * a[2], a[2] * b[2])

RatMul(a, b) == Rat(a[1] * b[1], a[2] * b[2])

RatInv(a) == Rat(a[2], a[1])

RatOne == <<1, 1>>

\* Mutant: the rate is taken over all actual items.
gbce_alpha_all_items(n_negatives, n_actual_items) == Rat(n_negatives, n_actual_items)

\* Lines 1088-1089.
gbce_alpha(n_negatives, n_actual_items) == Rat(n_negatives, n_actual_items - 1)

gbce_beta(gbce_t, alpha) ==
    RatMul(alpha, RatAdd(RatMul(gbce_t, RatSub(RatOne, RatInv(alpha))), RatInv(alpha)))

\* Lines 1091-1100 for one positive logit: log(1 / (sigmoid(logit)^(-beta) - 1)),
\* in thousandths, on the logit values and exponents of the model.
reduced_overconfidence_logit(logit, beta) ==
    IF IsNaN(logit) THEN NaN
    ELSE CASE beta = <<1, 1>> -> logit
           [] beta = <<9, 10>> /\ fval(logit) = 0 -> F(144)
           [] beta = <<9, 10>> /\ fval(logit) = 1000 -> F(1122)
           [] beta = <<3, 4>> /\ fval(logit) = 0 -> F(383)
           [] beta = <<3, 4>> /\ fval(logit) = 1000 -> F(1329)

\* _get_reduced_overconfidence_logits: the positive logit of every position
\* is replaced, the negative logits are kept.
_get_reduced_overconfidence_logits(self, logits, n_negatives) ==
    LET alpha == gbce_alpha(n_negatives, self.n_actual_items)
        beta == gbce_beta(self.gbce_t, alpha)
    IN [j \in 1..Len(logits) |->
            <<reduced_overconfidence_logit(logits[j][1], beta), logits[j][2]>>]

\* _calc_gbce_loss, lines 1105-1107.
_calc_gbce_loss(self, y, w, logits) ==
    _calc_bce_loss(y, w, _get_reduced_overconfidence_logits(self, logits, Len(logits[1]) - 1))

(***************************************************************************)
(* Inputs of the data pipeline.                                            *)
(***************************************************************************)
\* Interaction logs of n rows with pairwise distinct datetimes; the rows
\* come in ascending or in descending datetime order, and the weight of a
\* row is its row number.
RowOrders == {"asc", "desc"}

RawLog(n, users, items, order) ==
    [k \in 1..n |-> Row(users[k], items[k], IF order = "asc" THEN k ELSE n + 1 - k, k)]

RawLogs ==
    UNION {{RawLog(n, users, items, order) :
                users \in [1..n -> ExtUsers], items \in [1..n -> ExtItems], order \in RowOrders} :
           n \in 1..MaxRows}

BatchSizes == {1, 2}

MinInteractions == {1, 2, 3}

NoDataset == Dataset(<<>>, <<>>, <<>>, NoFeatures)

NoSequenceDataset == [sessions |-> <<>>, weights |-> <<>>]

NoBatchDict == [raises |-> FALSE, x |-> <<>>, y |-> <<>>, yw |-> <<>>, negatives |-> None]

\* Sequences of k pairwise distinct indices of 1..n.
DistinctSeqs(n, k) == {q \in [1..k -> 1..n] : \A i, j \in 1..k : i # j => q[i] # q[j]}

\* The batches a DataLoader over n sessions yields: batch_size sessions, or
\* the remaining n % batch_size ones, in any order when shuffling.  Each
\* entry is SequenceDataset.__getitem__(index), kept with its index.
DataLoader_batches(sequence, batch_size) ==
    LET n == Len(sequence.sessions)
        sizes == {k \in {batch_size, n % batch_size} : k >= 1 /\ k <= n}
        picks == UNION {DistinctSeqs(n, k) : k \in sizes}
    IN {[i \in 1..Len(q) |-> [index |-> q[i],
                              ses |-> sequence.sessions[q[i]],
                              ses_weights |-> sequence.weights[q[i]]]] : q \in picks}

\* The variables a specification does not use keep these values.
NoLossCalculator == [kind |-> "none", gbce_t |-> <<0, 1>>, n_actual_items |-> 0]

NoLossValue == [terms |-> <<>>, sum |-> F(0), n |-> 0]

NoLoss ==
    /\ calculator = NoLossCalculator
    /\ train_logits = <<>>
    /\ train_loss = NoLossValue

NoFacade ==
    /\ model_kind = "none"
    /\ sasrec = <<>>
    /\ dssm = <<>>
    /\ heap = <<>>
    /\ frame = <<>>
    /\ outcome = <<>>
    /\ history = <<>>

NoData ==
    /\ dataset = NoDataset
    /\ processed_dataset = NoDataset
    /\ sequence_dataset = NoSequenceDataset

(***************************************************************************)
(* SpecData: the training data pipeline of one preparator (softmax         *)
(* configuration, n_negatives None): process_dataset_train,                *)
(* get_dataloader_train, then the dataloader collating a batch.            *)
(***************************************************************************)
InitData ==
    /\ pc = "uninitialized"
    /\ \E session_max_len \in 1..MaxSessionLen, m \in MinInteractions :
            data_preparator = DataPreparator(session_max_len, None, m)
    /\ \E raw \in RawLogs : dataset = Dataset_construct(raw, "None", "None")
    /\ processed_dataset = NoDataset
    /\ sequence_dataset = NoSequenceDataset
    /\ batch = <<>>
    /\ batch_dict = NoBatchDict
    /\ NoLoss
    /\ NoFacade

ProcessDatasetTrain ==
    /\ pc = "uninitialized"
    /\ LET r == process_dataset_train(data_preparator, dataset)
       IN /\ data_preparator' = r.self
          /\ processed_dataset' = IF r.raises THEN processed_dataset ELSE r.dataset
          /\ pc' = IF r.raises THEN "raised" ELSE "processed_train"
    /\ UNCHANGED <<dataset, sequence_dataset, batchVars, lossVars, facadeVars>>

GetDataloaderTrain ==
    /\ pc = "processed_train"
    /\ sequence_dataset' = get_dataloader_train(data_preparator, processed_dataset)
    /\ pc' = "dataloader_train"
    /\ UNCHANGED <<data_preparator, dataset, processed_dataset, batchVars, lossVars, facadeVars>>

TrainBatch ==
    /\ pc = "dataloader_train"
    /\ \E batch_size \in BatchSizes :
       \E b \in DataLoader_batches(sequence_dataset, batch_size) :
       \E d \in _collate_fn_train(data_preparator, b) :
            /\ batch' = b
            /\ batch_dict' = d
            /\ pc' = "collated_train"
    /\ UNCHANGED <<data_preparator, dataVars, lossVars, facadeVars>>

NextData == ProcessDatasetTrain \/ GetDataloaderTrain \/ TrainBatch

SpecData == InitData /\ [][NextData]_vars

(***************************************************************************)
(* SpecCollate: the two collate functions applied to one session of any    *)
(* length, by a preparator whose vocabulary is PAD and two items.          *)
(***************************************************************************)
CollateItemIdMap == <<PADDING_VALUE, "a", "b">>

SessionWeights(n, pattern) == [k \in 1..n |-> IF pattern = "ones" THEN 1 ELSE k]

CollateSessions ==
    UNION {{[index |-> 1, ses |-> ses, ses_weights |-> SessionWeights(n, pattern)] :
                ses \in [1..n -> 1..(Len(CollateItemIdMap) - 1)], pattern \in WeightPatterns} :
           n \in 1..(MaxSessionLen + 2)}

InitCollate ==
    /\ pc = "collate_ready"
    /\ \E session_max_len \in 1..MaxSessionLen,
          n_negatives \in {None} \cup {Some(n) : n \in NegativeCounts} :
            data_preparator =
                [DataPreparator(session_max_len, n_negatives, 2)
                    EXCEPT !.item_id_map = Some(CollateItemIdMap),
                           !.extra_token_ids = Some(<<0>>)]
    /\ \E s \in CollateSessions : batch = <<s>>
    /\ dataset = NoDataset
    /\ processed_dataset = NoDataset
    /\ sequence_dataset = NoSequenceDataset
    /\ batch_dict = NoBatchDict
    /\ NoLoss
    /\ NoFacade

CollateTrain ==
    /\ pc = "collate_ready"
    /\ \E d \in _collate_fn_train(data_preparator, batch) :
            /\ batch_dict' = d
            /\ pc' = "collated_train"
    /\ UNCHANGED <<data_preparator, dataVars, batch, lossVars, facadeVars>>

CollateRecommend ==
    /\ pc = "collate_ready"
    /\ \E d \in _collate_fn_recommend(data_preparator, batch) :
            /\ batch_dict' = d
            /\ pc' = "collated_recommend"
    /\ UNCHANGED <<data_preparator, dataVars, batch, lossVars, facadeVars>>

\* The encoder output for one row at one position (encode_sessions returns
\* one state per row and position).
hidden_state(sessions_row, position) == [position |-> position, sessions |-> sessions_row]

\* predict_step, lines 1194-1197: the state at the last position of each row.
predict_step(b_dict) ==
    [i \in 1..Len(b_dict.x) |-> hidden_state(b_dict.x[i], Len(b_dict.x[i]))]

PredictStep ==
    /\ pc = "collated_recommend"
    /\ ~batch_dict.raises
    /\ outcome' = [call |-> "predict_step", raised |-> FALSE, result |-> {},
                   value |-> predict_step(batch_dict)]
    /\ pc' = "predicted"
    /\ UNCHANGED <<data_preparator, dataVars, batchVars, lossVars, model_kind, sasrec, dssm,
                   heap, frame, history>>

NextCollate == CollateTrain \/ CollateRecommend \/ PredictStep

SpecCollate == InitCollate /\ [][NextCollate]_vars

(***************************************************************************)
(* SpecLoss: one loss calculator applied to one batch row of targets,      *)
(* weights and logits.  The catalog is PAD and one item; a position whose  *)
(* session embedding is not-a-number has not-a-number logits.              *)
(***************************************************************************)
MaxLossLen == 2         \* positions of the batch row

LossWeights == {-1, 0, 1, 2}

LogitValues == {0, 1000}

LogitRows == {<<NaN, NaN>>} \cup {<<F(a), F(b)>> : a, b \in LogitValues}

LossCalculators ==
    {[kind |-> "softmax", gbce_t |-> <<0, 1>>, n_actual_items |-> 0],
     [kind |-> "BCE", gbce_t |-> <<0, 1>>, n_actual_items |-> 0],
     [kind |-> "gBCE", gbce_t |-> <<1, 5>>, n_actual_items |-> 3],
     [kind |-> "gBCE", gbce_t |-> <<1, 2>>, n_actual_items |-> 3],
     [kind |-> "gBCE", gbce_t |-> <<1, 5>>, n_actual_items |-> 2]}

InitLoss ==
    /\ pc = "loss_ready"
    /\ calculator \in LossCalculators
    /\ \E L \in 1..MaxLossLen :
        /\ \E y \in [1..L -> {0, 1}], yw \in [1..L -> LossWeights] :
                batch_dict = [raises |-> FALSE, x |-> <<>>, y |-> <<y>>, yw |-> <<yw>>,
                              negatives |-> IF calculator.kind = "softmax" THEN None
                                            ELSE Some(<<[j \in 1..L |-> <<1>>]>>)]
        /\ train_logits \in [1..L -> LogitRows]
    /\ train_loss = NoLossValue
    /\ data_preparator = DataPreparator(1, None, 2)
    /\ batch = <<>>
    /\ NoData
    /\ NoFacade

SoftmaxLoss ==
    /\ pc = "loss_ready"
    /\ calculator.kind = "softmax"
    /\ train_loss' = _calc_softmax_loss(batch_dict.y[1], batch_dict.yw[1], train_logits)
    /\ pc' = "loss_done"
    /\ UNCHANGED <<data_preparator, dataVars, batchVars, calculator, train_logits, facadeVars>>

BCELoss ==
    /\ pc = "loss_ready"
    /\ calculator.kind = "BCE"
    /\ train_loss' = _calc_bce_loss(batch_dict.y[1], batch_dict.yw[1], train_logits)
    /\ pc' = "loss_done"
    /\ UNCHANGED <<data_preparator, dataVars, batchVars, calculator, train_logits, facadeVars>>

GBCELoss ==
    /\ pc = "loss_ready"
    /\ calculator.kind = "gBCE"
    /\ train_loss' = _calc_gbce_loss(calculator, batch_dict.y[1], batch_dict.yw[1], train_logits)
    /\ pc' = "loss_done"
    /\ UNCHANGED <<data_preparator, dataVars, batchVars, calculator, train_logits, facadeVars>>

NextLoss == SoftmaxLoss \/ BCELoss \/ GBCELoss

SpecLoss == InitLoss /\ [][NextLoss]_vars

(***************************************************************************)
(* The model facades: TransformerModelBase / SASRecModel (sasrec.py) and   *)
(* DSSMModel (dssm.py).                                                    *)
(*                                                                         *)
(* Objects live in heap, a sequence indexed by object id; a reference is   *)
(* an object id, and an attribute that may be unset holds None or          *)
(* Some(reference).                                                        *)
(***************************************************************************)
MaxFits == 2            \* fit calls of one behaviour
MaxTargets == 3         \* target users of one recommend call

ItemNetBlockTypes ==
    {<<"IdEmbeddingsItemNet", "CatFeaturesItemNet">>, <<"CatFeaturesItemNet">>,
     <<"IdEmbeddingsItemNet">>, <<>>}

Losses == {"softmax", "BCE", "gBCE", "unknown"}

RecommendKs == {1, 2}

\* TransformerBasedSessionEncoder.__init__: no item_model until
\* construct_item_net is called.
TransformerBasedSessionEncoder(item_net_block_types) ==
    [cls |-> "TransformerBasedSessionEncoder",
     item_net_block_types |-> item_net_block_types,
     item_model |-> None,
     trained |-> FALSE]

Trainer == [cls |-> "Trainer", state |-> "initial"]

DSSM == [cls |-> "DSSM", trained |-> FALSE]

\* Mutant: no copy is made, the reference itself is handed back.
deepcopy_alias(h, ref) == [heap |-> h, ref |-> ref]

\* copy.deepcopy of the object behind a reference: a new object with the
\* same contents.
deepcopy(h, ref) == [heap |-> Append(h, h[ref]), ref |-> Len(h) + 1]

\* A newly constructed object.
new_object(h, obj) == [heap |-> Append(h, obj), ref |-> Len(h) + 1]

\* CatFeaturesItemNet.from_dataset: None unless the item features are sparse
\* and have categorical columns.
CatFeaturesItemNet_from_dataset(ds) ==
    IF ds.item_features.kind = "SparseCat" THEN Some("CatFeaturesItemNet") ELSE None

IdEmbeddingsItemNet_from_dataset(ds) == Some("IdEmbeddingsItemNet")

RECURSIVE item_net_blocks_from(_, _)
item_net_blocks_from(ds, item_net_block_types) ==
    IF item_net_block_types = <<>> THEN <<>>
    ELSE LET item_net == Head(item_net_block_types)
             item_net_block == IF item_net = "CatFeaturesItemNet"
                               THEN CatFeaturesItemNet_from_dataset(ds)
                               ELSE IdEmbeddingsItemNet_from_dataset(ds)
         IN item_net_block \o item_net_blocks_from(ds, Tail(item_net_block_types))

\* ItemNetConstructor.from_dataset followed by __init__, which raises when no
\* block was constructed.
ItemNetConstructor_from_dataset(ds, item_net_block_types) ==
    LET n_items == IdMap_size(ds.item_id_map)
        item_net_blocks == item_net_blocks_from(ds, item_net_block_types)
    IN [raises |-> Len(item_net_blocks) = 0,
        item_model |-> [n_items |-> n_items, item_net_blocks |-> item_net_blocks,
                        item_features |-> ds.item_features.rows]]

\* TransformerBasedSessionEncoder.construct_item_net: assigns item_model of
\* the encoder behind ref.
construct_item_net(h, ref, ds) ==
    LET r == ItemNetConstructor_from_dataset(ds, h[ref].item_net_block_types)
    IN [raises |-> r.raises,
        heap |-> IF r.raises THEN h
                 ELSE [h EXCEPT ![ref].item_model = Some(r.item_model)]]

\* Loss values that are LossCalculatorBase instances; every other loss value
\* is an identifier.
LossCalculatorInstances == {"CustomLossCalculator()"}

\* Mutant: an unknown loss value falls back to the softmax loss.
_init_loss_fallback(loss, gbce_t, n_actual_items) ==
    [raises |-> FALSE,
     loss_calculator |->
        IF loss = "gBCE"
        THEN [kind |-> "gBCE", gbce_t |-> gbce_t, n_actual_items |-> n_actual_items]
        ELSE IF loss \in {"BCE"} \cup LossCalculatorInstances
        THEN [kind |-> loss, gbce_t |-> <<0, 1>>, n_actual_items |-> 0]
        ELSE [kind |-> "softmax", gbce_t |-> <<0, 1>>, n_actual_items |-> 0]]

\* SessionEncoderLightningModuleBase._init_loss: the calculator of an
\* identifier, or the instance given (its kind is the instance).
_init_loss(loss, gbce_t, n_actual_items) ==
    [raises |-> loss \notin {"softmax", "BCE", "gBCE"} \cup LossCalculatorInstances,
     loss_calculator |->
        IF loss = "gBCE"
        THEN [kind |-> "gBCE", gbce_t |-> gbce_t, n_actual_items |-> n_actual_items]
        ELSE [kind |-> loss, gbce_t |-> <<0, 1>>, n_actual_items |-> 0]]

\* Mutant: the module is constructed with an item embedding snapshot.
SessionEncoderLightningModule_with_embs(torch_model, loss_calculator) ==
    [cls |-> "SessionEncoderLightningModule",
     torch_model |-> torch_model,
     loss_calculator |-> loss_calculator,
     item_embs |-> Some([n_items |-> 0])]

\* SessionEncoderLightningModuleBase.__init__: item_embs is only annotated.
SessionEncoderLightningModule(torch_model, loss_calculator) ==
    [cls |-> "SessionEncoderLightningModule",
     torch_model |-> torch_model,
     loss_calculator |-> loss_calculator,
     item_embs |-> None]

\* IdEmbeddingsItemNet.forward / CatFeaturesItemNet.forward: the embedding a
\* block gives one item, as one number.  The id embedding has a weight for
\* every catalog entry; the category embedding is the item's feature row
\* times the feature weights, 0 for an all-zero row.
block_embedding(block, item_features, item) ==
    IF block = "IdEmbeddingsItemNet" THEN item + 1
    ELSE IF item_features[item + 1] = "zeros" THEN 0 ELSE 10 * (item + 1)

RECURSIVE sum_block_embeddings(_, _, _)
sum_block_embeddings(item_net_blocks, item_features, item) ==
    IF item_net_blocks = <<>> THEN 0
    ELSE block_embedding(Head(item_net_blocks), item_features, item)
            + sum_block_embeddings(Tail(item_net_blocks), item_features, item)

\* Mutant: the embedding of the last block instead of the sum.
ItemNetConstructor_forward_last(item_model, items) ==
    [k \in 1..Len(items) |->
        block_embedding(item_model.item_net_blocks[Len(item_model.item_net_blocks)],
                        item_model.item_features, items[k])]

\* ItemNetConstructor.forward: the sum of the blocks' embeddings.
ItemNetConstructor_forward(item_model, items) ==
    [k \in 1..Len(items) |->
        sum_block_embeddings(item_model.item_net_blocks, item_model.item_features, items[k])]

\* ItemNetConstructor.catalog: the ids 0 .. n_items - 1.
catalog(item_model) == [k \in 1..item_model.n_items |-> k - 1]

\* ItemNetConstructor.get_all_embeddings: one embedding per catalog entry.
get_all_embeddings(item_model) ==
    [n_items |-> item_model.n_items,
     rows |-> ItemNetConstructor_forward(item_model, catalog(item_model))]

\* Trainer.fit(lightning_model, train_dataloader): the dataloader collates
\* every session; a collate that raises ends the training, otherwise
\* on_train_end caches the item embeddings.
train_dataloader_raises(self, sequence) ==
    \E k \in 1..Len(sequence.sessions) :
        Raised \in _collate_fn_train(self, <<[index |-> k,
                                             ses |-> sequence.sessions[k],
                                             ses_weights |-> sequence.weights[k]]>>)

Trainer_fit(h, trainer, lightning_model, self, sequence) ==
    LET raises == train_dataloader_raises(self, sequence)
        torch_model == h[lightning_model].torch_model
    IN [raises |-> raises,
        heap |-> IF raises
                 THEN [h EXCEPT ![trainer].state = "interrupted"]
                 ELSE [h EXCEPT ![trainer].state = "finished",
                                ![torch_model].trained = TRUE,
                                ![lightning_model].item_embs =
                                    Some(get_all_embeddings(Val(h[torch_model].item_model)))]]

\* ImplicitRanker.rank for one subject: min(k, candidates) ids of the
\* whitelist that are not filtered out; which ones depends on the scores.
ImplicitRanker_rank(k, filter_pairs, sorted_object_whitelist) ==
    LET candidates == Range(sorted_object_whitelist) \ filter_pairs
    IN {reco \in SUBSET candidates : Cardinality(reco) = Min2(k, Cardinality(candidates))}

\* _recommend_u2i for one user whose viewed items are ui_row.
_recommend_u2i(self, k, filter_viewed, ui_row, sorted_item_ids_to_recommend) ==
    LET whitelist == IF IsNone(sorted_item_ids_to_recommend)
                     THEN get_known_items_sorted_internal_ids(self)
                     ELSE Val(sorted_item_ids_to_recommend)
        ui_csr_for_filter == IF filter_viewed THEN ui_row ELSE {}
    IN ImplicitRanker_rank(k, ui_csr_for_filter, whitelist)

\* _recommend_i2i for one target item.
_recommend_i2i(self, k, sorted_item_ids_to_recommend) ==
    LET whitelist == IF IsNone(sorted_item_ids_to_recommend)
                     THEN get_known_items_sorted_internal_ids(self)
                     ELSE Val(sorted_item_ids_to_recommend)
    IN ImplicitRanker_rank(k, {}, whitelist)

\* Sorted arrays of internal ids a caller may pass as whitelist.
Whitelists(self) ==
    {None} \cup {Some(sorted_users_from(s, 0)) :
                    s \in SUBSET (0..(IdMap_size(Val(self.item_id_map)) - 1)) \ {{}}}

NoFrame == [torch_model |-> None]

NoOutcome == [call |-> "none", raised |-> FALSE, result |-> {}]

Returned(call) == [call |-> call, raised |-> FALSE, result |-> {}]

RaisedIn(call) == [call |-> call, raised |-> TRUE, result |-> {}]

\* The datasets fit is called with.
FitLogs ==
    {RawLog(2, <<"u1", "u1">>, <<"a", "b">>, "asc"),
     RawLog(3, <<"u1", "u1", "u2">>, <<"b", "b", "a">>, "asc")}

FitDatasets(user_feature_kinds) ==
    {Dataset_construct(raw, item_features_kind, user_features) :
        raw \in FitLogs, item_features_kind \in ItemFeatureKinds,
        user_features \in user_feature_kinds}

(***************************************************************************)
(* Spec: one facade, fitted up to MaxFits times and asked for              *)
(* recommendations between the fits.                                       *)
(***************************************************************************)
\* SASRecModel.__init__ / TransformerModelBase.__init__.
InitSASRec ==
    /\ model_kind = "sasrec"
    /\ \E item_net_block_types \in ItemNetBlockTypes, loss \in Losses,
          train_min_user_interaction \in {1, 2} :
        /\ heap = <<TransformerBasedSessionEncoder(item_net_block_types), Trainer>>
        /\ sasrec = [_torch_model |-> 1, _trainer |-> 2,
                     lightning_model |-> None, trainer |-> None,
                     loss |-> loss, gbce_t |-> <<1, 5>>, is_fitted |-> FALSE]
        /\ data_preparator = DataPreparator(MaxSessionLen,
                                            IF loss = "softmax" THEN None ELSE Some(1),
                                            train_min_user_interaction)
    /\ dssm = <<>>

\* DSSMModel.__init__, with or without a user-supplied model.
InitDSSM ==
    /\ model_kind = "dssm"
    /\ \E supplied \in BOOLEAN :
        /\ heap = IF supplied THEN <<Trainer, DSSM>> ELSE <<Trainer>>
        /\ dssm = [_model |-> IF supplied THEN Some(2) ELSE None, _trainer |-> 1,
                   model |-> None, trainer |-> None, is_fitted |-> FALSE]
    /\ sasrec = <<>>
    /\ data_preparator = DataPreparator(MaxSessionLen, None, 2)

Init ==
    /\ pc = "idle"
    /\ InitSASRec \/ InitDSSM
    /\ frame = NoFrame
    /\ outcome = NoOutcome
    /\ history = [calls |-> 0, fits |-> <<>>]
    /\ batch = <<>>
    /\ batch_dict = NoBatchDict
    /\ NoData
    /\ NoLoss

\* fit -> _fit, lines 1287-1288.
FitProcess ==
    /\ pc = "idle"
    /\ model_kind = "sasrec"
    /\ history.calls < MaxFits
    /\ \E ds \in FitDatasets({"None"}) :
        LET r == process_dataset_train(data_preparator, ds)
        IN /\ dataset' = ds
           /\ data_preparator' = r.self
           /\ history' = [history EXCEPT !.calls = @ + 1]
           /\ IF r.raises
              THEN /\ pc' = "idle"
                   /\ outcome' = RaisedIn("fit")
                   /\ UNCHANGED <<processed_dataset, sequence_dataset>>
              ELSE /\ pc' = "fit_processed"
                   /\ outcome' = NoOutcome
                   /\ processed_dataset' = r.dataset
                   /\ sequence_dataset' = get_dataloader_train(r.self, r.dataset)
    /\ UNCHANGED <<batchVars, lossVars, model_kind, sasrec, dssm, heap, frame>>

\* _fit, lines 1290-1291.
FitConstructItemNet ==
    /\ pc = "fit_processed"
    /\ LET torch_model == deepcopy(heap, sasrec._torch_model)
           r == construct_item_net(torch_model.heap, torch_model.ref, processed_dataset)
       IN /\ heap' = r.heap
          /\ IF r.raises
             THEN /\ pc' = "idle"
                  /\ outcome' = RaisedIn("fit")
                  /\ frame' = NoFrame
             ELSE /\ pc' = "fit_item_net"
                  /\ frame' = [torch_model |-> Some(torch_model.ref)]
                  /\ UNCHANGED outcome
    /\ UNCHANGED <<data_preparator, dataVars, batchVars, lossVars, model_kind, sasrec, dssm,
                   history>>

\* _fit, lines 1293-1300.
FitLightningModule ==
    /\ pc = "fit_item_net"
    /\ LET torch_model == Val(frame.torch_model)
           n_actual_items == Val(heap[torch_model].item_model).n_items
                                - n_item_extra_tokens(data_preparator)
           r == _init_loss(sasrec.loss, sasrec.gbce_t, n_actual_items)
           lightning_model ==
                new_object(heap, SessionEncoderLightningModule(torch_model, r.loss_calculator))
       IN IF r.raises
          THEN /\ pc' = "idle"
               /\ outcome' = RaisedIn("fit")
               /\ frame' = NoFrame
               /\ UNCHANGED <<heap, sasrec>>
          ELSE /\ pc' = "fit_lightning"
               /\ heap' = lightning_model.heap
               /\ sasrec' = [sasrec EXCEPT !.lightning_model = Some(lightning_model.ref)]
               /\ UNCHANGED <<outcome, frame>>
    /\ UNCHANGED <<data_preparator, dataVars, batchVars, lossVars, model_kind, dssm, history>>

\* _fit, lines 1302-1303, and the return to fit, which marks the model
\* fitted.
FitTrain ==
    /\ pc = "fit_lightning"
    /\ LET trainer == deepcopy(heap, sasrec._trainer)
           lightning_model == Val(sasrec.lightning_model)
           r == Trainer_fit(trainer.heap, trainer.ref, lightning_model, data_preparator,
                            sequence_dataset)
       IN /\ heap' = r.heap
          /\ IF r.raises
             THEN /\ sasrec' = [sasrec EXCEPT !.trainer = Some(trainer.ref)]
                  /\ outcome' = RaisedIn("fit")
                  /\ UNCHANGED history
             ELSE /\ sasrec' = [sasrec EXCEPT !.trainer = Some(trainer.ref),
                                              !.is_fitted = TRUE]
                  /\ outcome' = Returned("fit")
                  /\ history' = [history EXCEPT !.fits = Append(@,
                        [torch_model |-> Val(frame.torch_model),
                         lightning_model |-> lightning_model,
                         lightning_state |-> r.heap[lightning_model],
                         trainer |-> trainer.ref,
                         trainer_state |-> r.heap[trainer.ref],
                         item_id_map |-> data_preparator.item_id_map,
                         extra_token_ids |-> data_preparator.extra_token_ids])]
    /\ pc' = "idle"
    /\ frame' = NoFrame
    /\ UNCHANGED <<data_preparator, dataVars, batchVars, lossVars, model_kind, dssm>>

\* The viewed items of the user a recommend call is made for; enumerated for
\* calls that filter viewed items and pass no whitelist.
RecommendUIRows(self, filter_viewed, sorted_item_ids_to_recommend) ==
    IF filter_viewed /\ IsNone(sorted_item_ids_to_recommend)
    THEN SUBSET Range(get_known_items_sorted_internal_ids(self))
    ELSE {{}}

\* Mutant: the recommend call computes the item embeddings again.
recommend_reads_recomputed(self, model, h) ==
    [item_id_map |-> self.item_id_map,
     item_embs |-> Some(get_all_embeddings(
                    Val(h[h[Val(model.lightning_model)].torch_model].item_model)))]

\* What a recommend call reads: the vocabulary (lines 1323-1324) and the
\* item embeddings of the current lightning_model (lines 1330, 1370), an
\* attribute that does not exist before on_train_end.
recommend_reads(self, model, h) ==
    [item_id_map |-> self.item_id_map,
     item_embs |-> h[Val(model.lightning_model)].item_embs]

\* Whether the ranker is handed a candidate without an embedding row.
candidate_without_embedding(self, item_embs, sorted_item_ids_to_recommend) ==
    LET whitelist == IF IsNone(sorted_item_ids_to_recommend)
                     THEN get_known_items_sorted_internal_ids(self)
                     ELSE Val(sorted_item_ids_to_recommend)
    IN \E item \in Range(whitelist) : item >= Val(item_embs).n_items

\* The outcomes of a recommend call that reads `reads`: AttributeError when
\* item_embs is not set; otherwise what the ranker returns, and when a
\* candidate has no embedding row the ranker may also fail.
recommend_outcomes(call, at, reads, recos, out_of_range) ==
    IF IsNone(reads.item_embs)
    THEN {[call |-> call, raised |-> TRUE, result |-> {}, at |-> at, reads |-> reads]}
    ELSE {[call |-> call, raised |-> FALSE, result |-> reco, at |-> at, reads |-> reads] :
            reco \in recos}
         \cup (IF out_of_range
               THEN {[call |-> call, raised |-> TRUE, result |-> {}, at |-> at,
                      reads |-> reads]}
               ELSE {})

\* recommend -> _recommend_u2i for one user.
RecommendU2I ==
    /\ pc = "idle"
    /\ model_kind = "sasrec"
    /\ sasrec.is_fitted
    /\ LET reads == recommend_reads(data_preparator, sasrec, heap)
       IN \E k \in RecommendKs, filter_viewed \in BOOLEAN,
             sorted_item_ids_to_recommend \in Whitelists(data_preparator) :
          \E ui_row \in RecommendUIRows(data_preparator, filter_viewed,
                                         sorted_item_ids_to_recommend) :
             outcome' \in recommend_outcomes(
                 "recommend_u2i", pc, reads,
                 _recommend_u2i(data_preparator, k, filter_viewed, ui_row,
                                sorted_item_ids_to_recommend),
                 ~IsNone(reads.item_embs)
                    /\ candidate_without_embedding(data_preparator, reads.item_embs,
                                                   sorted_item_ids_to_recommend))
    /\ UNCHANGED <<data_preparator, dataVars, batchVars, lossVars, model_kind, sasrec, dssm,
                   heap, frame, history, pc>>

\* recommend_to_items -> _recommend_i2i for one target item.
RecommendI2I ==
    /\ pc = "idle"
    /\ model_kind = "sasrec"
    /\ sasrec.is_fitted
    /\ LET reads == recommend_reads(data_preparator, sasrec, heap)
       IN \E k \in RecommendKs,
             sorted_item_ids_to_recommend \in Whitelists(data_preparator) :
             outcome' \in recommend_outcomes(
                 "recommend_i2i", pc, reads,
                 _recommend_i2i(data_preparator, k, sorted_item_ids_to_recommend),
                 ~IsNone(reads.item_embs)
                    /\ candidate_without_embedding(data_preparator, reads.item_embs,
                                                   sorted_item_ids_to_recommend))
    /\ UNCHANGED <<data_preparator, dataVars, batchVars, lossVars, model_kind, sasrec, dssm,
                   heap, frame, history, pc>>

\* DSSMModel._fit, line 333.
DSSMFitTrainer ==
    /\ pc = "idle"
    /\ model_kind = "dssm"
    /\ history.calls < MaxFits
    /\ \E ds \in FitDatasets({"None", "Sparse"}) : dataset' = ds
    /\ LET trainer == deepcopy(heap, dssm._trainer)
       IN /\ heap' = trainer.heap
          /\ dssm' = [dssm EXCEPT !.trainer = Some(trainer.ref)]
    /\ history' = [history EXCEPT !.calls = @ + 1]
    /\ outcome' = NoOutcome
    /\ pc' = "dssm_fit_trainer"
    /\ UNCHANGED <<data_preparator, processed_dataset, sequence_dataset, batchVars, lossVars,
                   model_kind, sasrec, frame>>

\* DSSMModel._fit, lines 335-346.
DSSMFitModel ==
    /\ pc = "dssm_fit_trainer"
    /\ IF IsNone(dssm._model)
       THEN IF dataset.user_features = "None" \/ dataset.item_features.kind = "None"
            THEN /\ pc' = "idle"
                 /\ outcome' = RaisedIn("fit")
                 /\ UNCHANGED <<heap, dssm>>
            ELSE LET model == new_object(heap, DSSM)
                 IN /\ heap' = model.heap
                    /\ dssm' = [dssm EXCEPT !.model = Some(model.ref)]
                    /\ pc' = "dssm_fit_model"
                    /\ UNCHANGED outcome
       ELSE LET model == deepcopy(heap, Val(dssm._model))
            IN /\ heap' = model.heap
               /\ dssm' = [dssm EXCEPT !.model = Some(model.ref)]
               /\ pc' = "dssm_fit_model"
               /\ UNCHANGED outcome
    /\ UNCHANGED <<data_preparator, dataVars, batchVars, lossVars, model_kind, sasrec, frame,
                   history>>

\* What train_dataset_type.from_dataset may do: the dataset type is chosen by
\* the caller, and one that needs the features raises when they are absent.
train_dataset_may_raise(ds) ==
    IF ds.user_features = "None" \/ ds.item_features.kind = "None" THEN BOOLEAN ELSE {FALSE}

\* DSSMModel._fit, lines 348-369, and the return to fit.
DSSMFitTrain ==
    /\ pc = "dssm_fit_model"
    /\ \E raises \in train_dataset_may_raise(dataset) :
        IF raises
        THEN /\ outcome' = RaisedIn("fit")
             /\ UNCHANGED <<heap, dssm, history>>
        ELSE /\ heap' = [heap EXCEPT ![Val(dssm.trainer)].state = "finished",
                                     ![Val(dssm.model)].trained = TRUE]
             /\ dssm' = [dssm EXCEPT !.is_fitted = TRUE]
             /\ history' = [history EXCEPT !.fits = Append(@, [model |-> Val(dssm.model),
                                                               trainer |-> Val(dssm.trainer)])]
             /\ outcome' = Returned("fit")
    /\ pc' = "idle"
    /\ UNCHANGED <<data_preparator, dataVars, batchVars, lossVars, model_kind, sasrec, frame>>

\* What user_dataset_type.from_dataset / item_dataset_type.from_dataset may
\* do: the dataset types are chosen by the caller, and one that needs the
\* features of its tower raises when they are absent.
user_dataset_may_raise(ds) == IF ds.user_features = "None" THEN BOOLEAN ELSE {FALSE}

item_dataset_may_raise(ds) == IF ds.item_features.kind = "None" THEN BOOLEAN ELSE {FALSE}

\* DSSM.inference_users / DSSM.inference_items: the vectors of one tower of
\* the model object `ref`.
inference_users(h, ref) == [tower |-> "user", model |-> ref, trained |-> h[ref].trained]

inference_items(h, ref) == [tower |-> "item", model |-> ref, trained |-> h[ref].trained]

\* The outcome of a get_vectors call: the features of its dataset argument,
\* the error raised, the steps run and the value returned.
GetVectorsOutcome(ds, raised, error, steps, value) ==
    [call |-> "get_vectors", raised |-> raised, result |-> {}, error |-> error,
     user_features |-> ds.user_features, item_features |-> ds.item_features.kind,
     steps |-> steps, value |-> value]

\* Mutant: the item embeddings come first.
get_vectors_items_first(self, h, ds) ==
    IF ~self.is_fitted
    THEN {GetVectorsOutcome(ds, TRUE, "NotFittedError", <<>>, <<>>)}
    ELSE {GetVectorsOutcome(ds, FALSE, "none",
                            <<"user_dataloader", "inference_users", "item_dataloader",
                              "inference_items">>,
                            <<inference_items(h, Val(self.model)),
                              inference_users(h, Val(self.model))>>)}

\* DSSMModel.get_vectors, lines 371-376, with _get_users_factors and
\* _get_items_factors: the outcomes of the call, each with the steps it ran.
get_vectors(self, h, ds) ==
    IF ~self.is_fitted
    THEN {GetVectorsOutcome(ds, TRUE, "NotFittedError", <<>>, <<>>)}
    ELSE UNION {
        IF user_raises
        THEN {GetVectorsOutcome(ds, TRUE, "from_dataset", <<>>, <<>>)}
        ELSE UNION {
            IF item_raises
            THEN {GetVectorsOutcome(ds, TRUE, "from_dataset",
                                    <<"user_dataloader", "inference_users">>, <<>>)}
            ELSE {GetVectorsOutcome(ds, FALSE, "none",
                                    <<"user_dataloader", "inference_users", "item_dataloader",
                                      "inference_items">>,
                                    <<inference_users(h, Val(self.model)),
                                      inference_items(h, Val(self.model))>>)} :
            item_raises \in item_dataset_may_raise(ds)} :
        user_raises \in user_dataset_may_raise(ds)}

\* DSSMModel.get_vectors called between fits.
DSSMGetVectors ==
    /\ pc = "idle"
    /\ model_kind = "dssm"
    /\ \E ds \in FitDatasets({"None", "Sparse"}) :
            outcome' \in get_vectors(dssm, heap, ds)
    /\ UNCHANGED <<data_preparator, dataVars, batchVars, lossVars, model_kind, sasrec, dssm,
                   heap, frame, history, pc>>

Next ==
    \/ FitProcess
    \/ FitConstructItemNet
    \/ FitLightningModule
    \/ FitTrain
    \/ RecommendU2I
    \/ RecommendI2I
    \/ DSSMFitTrainer
    \/ DSSMFitModel
    \/ DSSMFitTrain
    \/ DSSMGetVectors

Spec == Init /\ [][Next]_vars

(***************************************************************************)
(* SpecInterleaved: one transformer facade whose recommend calls may run   *)
(* between the steps of a fit call running on another thread.  A recommend *)
(* call reads the preparator's vocabulary and lightning_model.item_embs as *)
(* they are at that moment.                                                *)
(***************************************************************************)
\* The facade is one whose fits can complete: a known loss, the default
\* train_min_user_interaction, and an item net that has or may lack a block.
InitInterleaved ==
    /\ Init
    /\ model_kind = "sasrec"
    /\ sasrec.loss \in {"softmax", "gBCE"}
    /\ data_preparator.train_min_user_interactions = 2
    /\ heap[sasrec._torch_model].item_net_block_types
            \in {<<"IdEmbeddingsItemNet", "CatFeaturesItemNet">>, <<"CatFeaturesItemNet">>}

\* recommend -> _recommend_u2i for one user, at any point of a running fit.
RecommendU2IConcurrent ==
    /\ model_kind = "sasrec"
    /\ sasrec.is_fitted
    /\ LET reads == recommend_reads(data_preparator, sasrec, heap)
       IN \E k \in RecommendKs, filter_viewed \in BOOLEAN,
             sorted_item_ids_to_recommend \in Whitelists(data_preparator) :
          \E ui_row \in RecommendUIRows(data_preparator, filter_viewed,
                                         sorted_item_ids_to_recommend) :
             outcome' \in recommend_outcomes(
                 "recommend_u2i", pc, reads,
                 _recommend_u2i(data_preparator, k, filter_viewed, ui_row,
                                sorted_item_ids_to_recommend),
                 ~IsNone(reads.item_embs)
                    /\ candidate_without_embedding(data_preparator, reads.item_embs,
                                                   sorted_item_ids_to_recommend))
    /\ UNCHANGED <<data_preparator, dataVars, batchVars, lossVars, model_kind, sasrec, dssm,
                   heap, frame, history, pc>>

\* recommend_to_items -> _recommend_i2i for one target item, at any point of
\* a running fit.
RecommendI2IConcurrent ==
    /\ model_kind = "sasrec"
    /\ sasrec.is_fitted
    /\ LET reads == recommend_reads(data_preparator, sasrec, heap)
       IN \E k \in RecommendKs,
             sorted_item_ids_to_recommend \in Whitelists(data_preparator) :
             outcome' \in recommend_outcomes(
                 "recommend_i2i", pc, reads,
                 _recommend_i2i(data_preparator, k, sorted_item_ids_to_recommend),
                 ~IsNone(reads.item_embs)
                    /\ candidate_without_embedding(data_preparator, reads.item_embs,
                                                   sorted_item_ids_to_recommend))
    /\ UNCHANGED <<data_preparator, dataVars, batchVars, lossVars, model_kind, sasrec, dssm,
                   heap, frame, history, pc>>

NextInterleaved ==
    \/ FitProcess
    \/ FitConstructItemNet
    \/ FitLightningModule
    \/ FitTrain
    \/ RecommendU2IConcurrent
    \/ RecommendI2IConcurrent

SpecInterleaved == InitInterleaved /\ [][NextInterleaved]_vars

(***************************************************************************)
(* SpecItemNet: construct_item_net and get_all_embeddings for any sequence *)
(* of up to MaxBlocks requested block types, on raw and on processed        *)
(* datasets.                                                               *)
(***************************************************************************)
MaxBlocks == 2          \* requested item net block types

BlockTypeSeqs ==
    UNION {[1..n -> {"IdEmbeddingsItemNet", "CatFeaturesItemNet"}] : n \in 0..MaxBlocks}

ItemNetDatasets ==
    FitDatasets({"None"})
        \cup {process_dataset_train(DataPreparator(MaxSessionLen, None, 2), ds).dataset :
                ds \in {d \in FitDatasets({"None"}) : d.item_features.kind # "Dense"}}

InitItemNet ==
    /\ pc = "item_net_requested"
    /\ \E item_net_block_types \in BlockTypeSeqs :
            heap = <<TransformerBasedSessionEncoder(item_net_block_types)>>
    /\ dataset \in ItemNetDatasets
    /\ data_preparator = DataPreparator(MaxSessionLen, None, 2)
    /\ model_kind = "none"
    /\ sasrec = <<>>
    /\ dssm = <<>>
    /\ frame = NoFrame
    /\ outcome = NoOutcome
    /\ history = [calls |-> 0, fits |-> <<>>]
    /\ processed_dataset = NoDataset
    /\ sequence_dataset = NoSequenceDataset
    /\ batch = <<>>
    /\ batch_dict = NoBatchDict
    /\ NoLoss

\* TransformerBasedSessionEncoder.construct_item_net(dataset).
ConstructItemNet ==
    /\ pc = "item_net_requested"
    /\ LET r == construct_item_net(heap, 1, dataset)
       IN /\ heap' = r.heap
          /\ pc' = IF r.raises THEN "item_net_raised" ELSE "item_net_constructed"
          /\ outcome' = IF r.raises THEN RaisedIn("construct_item_net")
                        ELSE Returned("construct_item_net")
    /\ UNCHANGED <<data_preparator, dataVars, batchVars, lossVars, model_kind, sasrec, dssm,
                   frame, history>>

\* item_model.get_all_embeddings().
GetAllEmbeddings ==
    /\ pc = "item_net_constructed"
    /\ outcome' = [call |-> "get_all_embeddings", raised |-> FALSE, result |-> {},
                   embeddings |-> get_all_embeddings(Val(heap[1].item_model))]
    /\ pc' = "item_net_embedded"
    /\ UNCHANGED <<data_preparator, dataVars, batchVars, lossVars, model_kind, sasrec, dssm,
                   heap, frame, history>>

NextItemNet == ConstructItemNet \/ GetAllEmbeddings

SpecItemNet == InitItemNet /\ [][NextItemNet]_vars

(***************************************************************************)
(* transform_dataset_u2i / transform_dataset_i2i, and the preparator's     *)
(* methods called on a preparator in any state of its lifecycle.  A method *)
(* that reads item_id_map before process_dataset_train assigned it raises  *)
(* AttributeError.                                                         *)
(***************************************************************************)
\* transform_dataset_u2i, lines 837-861: the interactions of the target users
\* (an array of external ids) with known items, users renumbered in order of
\* appearance, items in the model's id space.
transform_dataset_u2i(self, ds, users) ==
    LET raw == get_raw_interactions(ds)
        by_user == filter_users(raw, Range(users))
        interactions == filter_items(by_user, Range(get_known_item_ids(self)))
        rec_user_id_map == IdMap_from_values(Column(interactions, "user"))
        item_id_map == Val(self.item_id_map)
    IN Dataset(rec_user_id_map, item_id_map,
               Interactions_from_raw(interactions, rec_user_id_map, item_id_map), NoFeatures)

\* transform_dataset_u2i, lines 855-858: the warnings of the call, each the
\* count it reports.
transform_dataset_u2i_warnings(self, ds, users) ==
    LET n_filtered == Len(users) - IdMap_size(transform_dataset_u2i(self, ds, users).user_id_map)
    IN IF n_filtered > 0 THEN <<n_filtered>> ELSE <<>>

\* Mutant: the user id map is rebuilt from the users left.
transform_dataset_i2i_rebuilt_users(self, ds) ==
    LET interactions == filter_items(get_raw_interactions(ds), Range(get_known_item_ids(self)))
        user_id_map == IdMap_from_values(Column(interactions, "user"))
        item_id_map == Val(self.item_id_map)
    IN Dataset(user_id_map, item_id_map,
               Interactions_from_raw(interactions, user_id_map, item_id_map), NoFeatures)

\* transform_dataset_i2i, lines 882-886: the interactions with known items,
\* the dataset's users, items in the model's id space.
transform_dataset_i2i(self, ds) ==
    LET interactions == filter_items(get_raw_interactions(ds), Range(get_known_item_ids(self)))
        item_id_map == Val(self.item_id_map)
    IN Dataset(ds.user_id_map, item_id_map,
               Interactions_from_raw(interactions, ds.user_id_map, item_id_map), NoFeatures)

\* Whether reading self.item_id_map raises: the attribute is only annotated
\* by __init__.
item_id_map_unset(self) == IsNone(self.item_id_map)

\* The outcome of a preparator method: what it returned, or that it raised,
\* and the lifecycle state it was called in.
MethodRaised(call, at) == [call |-> call, raised |-> TRUE, result |-> {}, at |-> at]

MethodReturned(call, at, value) ==
    [call |-> call, raised |-> FALSE, result |-> {}, at |-> at, value |-> value]

(***************************************************************************)
(* SpecLifecycle: a data preparator on which process_dataset_train is      *)
(* called up to MaxFits times, and the methods that need the vocabulary at  *)
(* any time.  pc is the lifecycle state; dataset is the argument of the    *)
(* last process_dataset_train call that returned.                          *)
(***************************************************************************)
InitLifecycle ==
    /\ pc = "uninitialized"
    /\ \E n_negatives \in {None} \cup {Some(n) : n \in NegativeCounts} :
            data_preparator = DataPreparator(MaxSessionLen, n_negatives, 2)
    /\ history = [calls |-> 0, fits |-> <<>>]
    /\ outcome = NoOutcome
    /\ model_kind = "none"
    /\ sasrec = <<>>
    /\ dssm = <<>>
    /\ heap = <<>>
    /\ frame = NoFrame
    /\ batch = <<>>
    /\ batch_dict = NoBatchDict
    /\ NoData
    /\ NoLoss

LifecycleProcessDatasetTrain ==
    /\ history.calls < MaxFits
    /\ \E ds \in FitDatasets({"None"}) :
        LET r == process_dataset_train(data_preparator, ds)
        IN IF r.raises
           THEN /\ outcome' = MethodRaised("process_dataset_train", pc)
                /\ UNCHANGED <<data_preparator, dataset, processed_dataset, pc>>
           ELSE /\ outcome' = Returned("process_dataset_train")
                /\ data_preparator' = r.self
                /\ dataset' = ds
                /\ processed_dataset' = r.dataset
                /\ pc' = "processed_train"
    /\ history' = [history EXCEPT !.calls = @ + 1]
    /\ UNCHANGED <<sequence_dataset, batchVars, lossVars, model_kind, sasrec, dssm, heap,
                   frame>>

LifecycleGetKnownItemIds ==
    /\ outcome' = IF item_id_map_unset(data_preparator)
                  THEN MethodRaised("get_known_item_ids", pc)
                  ELSE MethodReturned("get_known_item_ids", pc,
                                      get_known_item_ids(data_preparator))
    /\ UNCHANGED <<data_preparator, dataVars, batchVars, lossVars, model_kind, sasrec, dssm,
                   heap, frame, history, pc>>

LifecycleGetKnownItemsSortedInternalIds ==
    /\ outcome' = IF item_id_map_unset(data_preparator)
                  THEN MethodRaised("get_known_items_sorted_internal_ids", pc)
                  ELSE MethodReturned("get_known_items_sorted_internal_ids", pc,
                                      get_known_items_sorted_internal_ids(data_preparator))
    /\ UNCHANGED <<data_preparator, dataVars, batchVars, lossVars, model_kind, sasrec, dssm,
                   heap, frame, history, pc>>

\* The arrays of target users the lifecycle calls transform_dataset_u2i with.
LifecycleTargets == {<<>>, <<"u1">>, <<"u2">>, <<"u1", "u2">>}

LifecycleTransformDatasetU2I ==
    /\ \E ds \in FitDatasets({"None"}), users \in LifecycleTargets :
        IF item_id_map_unset(data_preparator)
        THEN /\ outcome' = MethodRaised("transform_dataset_u2i", pc)
             /\ UNCHANGED pc
        ELSE /\ outcome' = MethodReturned("transform_dataset_u2i", pc,
                                          transform_dataset_u2i(data_preparator, ds, users))
             /\ pc' = "ready_for_recommend"
    /\ UNCHANGED <<data_preparator, dataVars, batchVars, lossVars, model_kind, sasrec, dssm,
                   heap, frame, history>>

LifecycleTransformDatasetI2I ==
    /\ \E ds \in FitDatasets({"None"}) :
        IF item_id_map_unset(data_preparator)
        THEN /\ outcome' = MethodRaised("transform_dataset_i2i", pc)
             /\ UNCHANGED pc
        ELSE /\ outcome' = MethodReturned("transform_dataset_i2i", pc,
                                          transform_dataset_i2i(data_preparator, ds))
             /\ pc' = "ready_for_recommend"
    /\ UNCHANGED <<data_preparator, dataVars, batchVars, lossVars, model_kind, sasrec, dssm,
                   heap, frame, history>>

\* The train batches of one session of two items collated by the preparator.
LifecycleSessions ==
    {s \in CollateSessions : Len(s.ses) = 2 /\ s.ses_weights = SessionWeights(2, "ones")}

LifecycleCollateTrain ==
    /\ \E s \in LifecycleSessions :
       \E d \in _collate_fn_train(data_preparator, <<s>>) :
            outcome' = IF d.raises THEN MethodRaised("_collate_fn_train", pc)
                       ELSE MethodReturned("_collate_fn_train", pc, d)
    /\ UNCHANGED <<data_preparator, dataVars, batchVars, lossVars, model_kind, sasrec, dssm,
                   heap, frame, history, pc>>

NextLifecycle ==
    \/ LifecycleProcessDatasetTrain
    \/ LifecycleGetKnownItemIds
    \/ LifecycleGetKnownItemsSortedInternalIds
    \/ LifecycleTransformDatasetU2I
    \/ LifecycleTransformDatasetI2I
    \/ LifecycleCollateTrain

SpecLifecycle == InitLifecycle /\ [][NextLifecycle]_vars

(***************************************************************************)
(* SpecTransform: a preparator whose vocabulary one process_dataset_train  *)
(* call built, asked to transform a dataset for recommendation.  dataset   *)
(* is the dataset handed to transform_dataset_u2i / transform_dataset_i2i. *)
(***************************************************************************)
\* The arrays of target users a caller asks recommendations for; "u3" is in
\* no dataset.
TargetUsers ==
    UNION {[1..n -> ExtUsers \cup {"u3"}] : n \in 0..MaxTargets}

\* The datasets recommendations are asked on.
RecommendDatasets ==
    {Dataset_construct(raw, "None", "None") :
        raw \in {log \in RawLogs : Len(log) < MaxRows /\ log[1].datetime = 1}}

\* The outcome of a transform_dataset call that returned: the target users,
\* the dataset it returned and the warnings it emitted.
TransformReturned(call, users, value, warnings) ==
    [call |-> call, raised |-> FALSE, result |-> {}, users |-> users, value |-> value,
     warnings |-> warnings]

InitTransform ==
    /\ pc = "processed_train"
    /\ \E ds \in {fitted \in FitDatasets({"None"}) : fitted.item_features.kind = "None"} :
            data_preparator =
                process_dataset_train(DataPreparator(MaxSessionLen, None, 2), ds).self
    /\ dataset \in RecommendDatasets
    /\ processed_dataset = NoDataset
    /\ sequence_dataset = NoSequenceDataset
    /\ batch = <<>>
    /\ batch_dict = NoBatchDict
    /\ outcome = NoOutcome
    /\ history = [calls |-> 0, fits |-> <<>>]
    /\ model_kind = "none"
    /\ sasrec = <<>>
    /\ dssm = <<>>
    /\ heap = <<>>
    /\ frame = NoFrame
    /\ NoLoss

\* transform_dataset_u2i; processed_dataset holds the returned dataset.
TransformDatasetU2I ==
    /\ pc = "processed_train"
    /\ \E users \in TargetUsers :
        LET value == transform_dataset_u2i(data_preparator, dataset, users)
        IN /\ processed_dataset' = value
           /\ outcome' = TransformReturned(
                            "transform_dataset_u2i", users, value,
                            transform_dataset_u2i_warnings(data_preparator, dataset, users))
    /\ pc' = "ready_for_recommend"
    /\ UNCHANGED <<data_preparator, dataset, sequence_dataset, batchVars, lossVars, model_kind,
                   sasrec, dssm, heap, frame, history>>

\* transform_dataset_i2i; processed_dataset holds the returned dataset.
TransformDatasetI2I ==
    /\ pc = "processed_train"
    /\ LET value == transform_dataset_i2i(data_preparator, dataset)
       IN /\ processed_dataset' = value
          /\ outcome' = TransformReturned("transform_dataset_i2i", <<>>, value, <<>>)
    /\ pc' = "ready_for_recommend"
    /\ UNCHANGED <<data_preparator, dataset, sequence_dataset, batchVars, lossVars, model_kind,
                   sasrec, dssm, heap, frame, history>>

NextTransform ==
    \/ TransformDatasetU2I
    \/ TransformDatasetI2I

SpecTransform == InitTransform /\ [][NextTransform]_vars

(***************************************************************************)
(* SpecModule: one lightning module constructed with a loss value, gbce_t  *)
(* and n_actual_items, and the training steps run on it.  frame holds the  *)
(* arguments of the constructor; heap holds the module once constructed.   *)
(***************************************************************************)
MaxActualItems == 3     \* n_actual_items ranges over 1..MaxActualItems

MaxSteps == 2           \* training steps run on one module

LossValues == Losses \cup LossCalculatorInstances

GbceTs == {<<1, 5>>, <<1, 2>>, <<3, 4>>}

InitModule ==
    /\ pc = "module_requested"
    /\ \E loss \in LossValues, gbce_t \in GbceTs, n_actual_items \in 1..MaxActualItems :
            frame = [torch_model |-> Some(1), loss |-> loss, gbce_t |-> gbce_t,
                     n_actual_items |-> n_actual_items]
    /\ heap = <<TransformerBasedSessionEncoder(<<"IdEmbeddingsItemNet">>)>>
    /\ outcome = NoOutcome
    /\ history = [calls |-> 0, fits |-> <<>>]
    /\ model_kind = "none"
    /\ sasrec = <<>>
    /\ dssm = <<>>
    /\ data_preparator = DataPreparator(MaxSessionLen, None, 2)
    /\ batch = <<>>
    /\ batch_dict = NoBatchDict
    /\ NoData
    /\ NoLoss

\* SessionEncoderLightningModuleBase.__init__, lines 1133-1148.
ConstructLightningModule ==
    /\ pc = "module_requested"
    /\ LET r == _init_loss(frame.loss, frame.gbce_t, frame.n_actual_items)
           lightning_model ==
                new_object(heap, SessionEncoderLightningModule(Val(frame.torch_model),
                                                               r.loss_calculator))
       IN IF r.raises
          THEN /\ pc' = "module_raised"
               /\ outcome' = RaisedIn("SessionEncoderLightningModule")
               /\ UNCHANGED heap
          ELSE /\ pc' = "module_constructed"
               /\ outcome' = Returned("SessionEncoderLightningModule")
               /\ heap' = lightning_model.heap
    /\ UNCHANGED <<data_preparator, dataVars, batchVars, lossVars, model_kind, sasrec, dssm,
                   frame, history>>

\* training_step, lines 1185-1187: the module's loss calculator is applied.
TrainingStep ==
    /\ pc = "module_constructed"
    /\ history.calls < MaxSteps
    /\ calculator' = heap[Len(heap)].loss_calculator
    /\ history' = [history EXCEPT !.calls = @ + 1]
    /\ outcome' = Returned("training_step")
    /\ UNCHANGED <<data_preparator, dataVars, batchVars, train_logits, train_loss, model_kind,
                   sasrec, dssm, heap, frame, pc>>

NextModule ==
    \/ ConstructLightningModule
    \/ TrainingStep

SpecModule == InitModule /\ [][NextModule]_vars

(***************************************************************************)
(* SpecEncoder: encode_sessions on one left-padded session row, followed   *)
(* sub-layer by sub-layer through SASRecTransformerLayers.forward.  The    *)
(* hidden state of a position is abstracted to "zero", "nonzero" or "nan"; *)
(* the learnable biases of the layers are all zero (as constructed) or     *)
(* nonzero (as training may leave them).  frame holds the encoder's        *)
(* configuration and the locals of the forward pass.                       *)
(***************************************************************************)
\* Left-padded rows of n positions holding at least one item.
PaddedRows(n) ==
    UNION {{[j \in 1..n |-> IF j <= pads THEN 0 ELSE items[j - pads]] :
                items \in [1..(n - pads) -> 1..(Len(CollateItemIdMap) - 1)]} :
           pads \in 0..(n - 1)}

\* Mutant: the diagonal is masked too.
causal_attn_mask_strict(session_max_len) ==
    [i \in 1..session_max_len |-> [j \in 1..session_max_len |-> j >= i]]

\* ~torch.tril(torch.ones(n, n)), line 585: TRUE where attention is forbidden.
causal_attn_mask(session_max_len) ==
    [i \in 1..session_max_len |-> [j \in 1..session_max_len |-> j > i]]

\* sessions == 0, line 589.
padding_mask(sessions) == [j \in 1..Len(sessions) |-> sessions[j] = 0]

\* sessions != 0, line 590.
timeline_mask_of(sessions) == [j \in 1..Len(sessions) |-> sessions[j] # 0]

\* torch.nn.MultiheadAttention: query position i may attend to key position
\* j unless attn_mask[i][j] or key_padding_mask[j] forbids it.
permitted_key(attn_mask, key_padding_mask, i, j) ==
    /\ IsNone(attn_mask) \/ ~Val(attn_mask)[i][j]
    /\ IsNone(key_padding_mask) \/ ~Val(key_padding_mask)[j]

\* seqs * timeline_mask: zero at padded positions, except that not-a-number
\* times zero is not-a-number.
apply_timeline_mask(seqs, mask) ==
    [j \in 1..Len(seqs) |-> IF mask[j] \/ seqs[j] = "nan" THEN seqs[j] ELSE "zero"]

\* nn.LayerNorm at one position: the bias for a zero input.
layer_norm(x, biases) == IF x = "zero" THEN biases ELSE x

\* x + y at one position.
residual_add(x, y) ==
    IF x = "nan" \/ y = "nan" THEN "nan"
    ELSE IF x = "zero" /\ y = "zero" THEN "zero" ELSE "nonzero"

\* The output of multi-head attention at query position i: not-a-number
\* when no key is permitted or a permitted key or the query is not-a-number.
multi_head_attn(q, seqs, attn_mask, key_padding_mask, biases, i) ==
    LET keys == {j \in 1..Len(seqs) : permitted_key(attn_mask, key_padding_mask, i, j)}
    IN IF keys = {} \/ q[i] = "nan" \/ \E j \in keys : seqs[j] = "nan" THEN "nan"
       ELSE IF biases = "nonzero" \/ \E j \in keys : seqs[j] = "nonzero" THEN "nonzero"
       ELSE "zero"

\* PointWiseFeedForward.forward at one position.
feed_forward(x, biases) ==
    IF x = "nan" THEN "nan"
    ELSE IF x = "nonzero" \/ biases = "nonzero" THEN "nonzero" ELSE "zero"

\* Lines 422-426: the attention sub-layer of one block.
attention_sublayer(seqs, attn_mask, key_padding_mask, biases) ==
    LET q == [j \in 1..Len(seqs) |-> layer_norm(seqs[j], biases)]
    IN [j \in 1..Len(seqs) |->
            residual_add(q[j], multi_head_attn(q, seqs, attn_mask, key_padding_mask, biases, j))]

\* Lines 427-431: the feed-forward sub-layer of one block and the mask that
\* ends the block.
feed_forward_sublayer(seqs, mask, biases) ==
    LET ff_input == [j \in 1..Len(seqs) |-> layer_norm(seqs[j], biases)]
        out == [j \in 1..Len(seqs) |->
                    residual_add(feed_forward(ff_input[j], biases), ff_input[j])]
    IN apply_timeline_mask(out, mask)

InitEncoder ==
    /\ pc = "encode_ready"
    /\ \E session_max_len \in 1..(MaxSessionLen + 1) :
       \E sessions \in PaddedRows(session_max_len) : batch = <<sessions>>
    /\ \E use_causal_attn \in BOOLEAN, use_key_padding_mask \in BOOLEAN,
          n_blocks \in 1..MaxBlocks, biases \in {"zero", "nonzero"} :
            frame = [torch_model |-> None, use_causal_attn |-> use_causal_attn,
                     use_key_padding_mask |-> use_key_padding_mask, n_blocks |-> n_blocks,
                     biases |-> biases, attn_mask |-> None, key_padding_mask |-> None,
                     timeline_mask |-> <<>>, seqs |-> <<>>, block |-> 0, last_layernorm |-> 0]
    /\ outcome = NoOutcome
    /\ history = [calls |-> 0, fits |-> <<>>]
    /\ model_kind = "none"
    /\ sasrec = <<>>
    /\ dssm = <<>>
    /\ heap = <<>>
    /\ data_preparator = DataPreparator(MaxSessionLen, None, 2)
    /\ batch_dict = NoBatchDict
    /\ NoData
    /\ NoLoss

\* encode_sessions, lines 581-595: the masks, and the item embeddings with
\* the positional encoding (a learnt row for PAD too).
EncodeSessions ==
    /\ pc = "encode_ready"
    /\ LET sessions == batch[1]
       IN frame' = [frame EXCEPT
                !.attn_mask = IF frame.use_causal_attn
                              THEN Some(causal_attn_mask(Len(sessions))) ELSE None,
                !.key_padding_mask = IF frame.use_key_padding_mask
                                     THEN Some(padding_mask(sessions)) ELSE None,
                !.timeline_mask = timeline_mask_of(sessions),
                !.seqs = [j \in 1..Len(sessions) |-> "nonzero"]]
    /\ pc' = "layers_called"
    /\ UNCHANGED <<data_preparator, dataVars, batchVars, lossVars, model_kind, sasrec, dssm,
                   heap, outcome, history>>

\* SASRecTransformerLayers.forward, line 421.
MaskInput ==
    /\ pc = "layers_called"
    /\ frame' = [frame EXCEPT !.seqs = apply_timeline_mask(@, frame.timeline_mask)]
    /\ pc' = "block_input"
    /\ UNCHANGED <<data_preparator, dataVars, batchVars, lossVars, model_kind, sasrec, dssm,
                   heap, outcome, history>>

\* SASRecTransformerLayers.forward, lines 423-427.
AttentionSublayer ==
    /\ pc = "block_input"
    /\ frame.block < frame.n_blocks
    /\ frame' = [frame EXCEPT !.seqs = attention_sublayer(@, frame.attn_mask,
                                                          frame.key_padding_mask, frame.biases)]
    /\ pc' = "after_attention"
    /\ UNCHANGED <<data_preparator, dataVars, batchVars, lossVars, model_kind, sasrec, dssm,
                   heap, outcome, history>>

\* SASRecTransformerLayers.forward, lines 428-432.
FeedForwardSublayer ==
    /\ pc = "after_attention"
    /\ frame' = [frame EXCEPT !.seqs = feed_forward_sublayer(@, frame.timeline_mask,
                                                             frame.biases),
                              !.block = @ + 1]
    /\ pc' = "block_input"
    /\ UNCHANGED <<data_preparator, dataVars, batchVars, lossVars, model_kind, sasrec, dssm,
                   heap, outcome, history>>

\* SASRecTransformerLayers.forward, lines 434-436, and the return of
\* encode_sessions.
LastLayerNorm ==
    /\ pc = "block_input"
    /\ frame.block = frame.n_blocks
    /\ frame' = [frame EXCEPT !.seqs = [j \in 1..Len(@) |-> layer_norm(@[j], frame.biases)],
                              !.last_layernorm = @ + 1]
    /\ outcome' = Returned("encode_sessions")
    /\ pc' = "encoded"
    /\ UNCHANGED <<data_preparator, dataVars, batchVars, lossVars, model_kind, sasrec, dssm,
                   heap, history>>

NextEncoder ==
    \/ EncodeSessions
    \/ MaskInput
    \/ AttentionSublayer
    \/ FeedForwardSublayer
    \/ LastLayerNorm

SpecEncoder == InitEncoder /\ [][NextEncoder]_vars

(***************************************************************************)
(* SpecGbce: a fit of a facade configured with loss "gBCE", step by step   *)
(* up to the first training step, where the gBCE calculator derives the    *)
(* sampling rate alpha and the exponent beta from the number of sampled    *)
(* negatives of the batch and its n_actual_items.  frame holds the         *)
(* facade's loss, gbce_t and the torch model of the fit.                   *)
(***************************************************************************)
GbceItems == ExtItems \cup {"c"}

GbceNegativeCounts == {0} \cup NegativeCounts

\* Logs of one user over the items, at least two rows so that the user
\* passes the train_min_user_interactions filter.
GbceLogs ==
    UNION {{RawLog(n, [k \in 1..n |-> "u1"], items, "asc") : items \in [1..n -> GbceItems]} :
           n \in 2..MaxRows}

\* Lines 1088-1089 with Python's float division: a zero divisor raises
\* ZeroDivisionError, in n_negatives / (n_actual_items - 1) and in 1 / alpha.
gbce_exponents(self, n_negatives) ==
    IF self.n_actual_items - 1 = 0 \/ n_negatives = 0
    THEN [raises |-> TRUE, alpha |-> None, beta |-> None]
    ELSE LET alpha == gbce_alpha(n_negatives, self.n_actual_items)
         IN [raises |-> FALSE, alpha |-> Some(alpha),
             beta |-> Some(gbce_beta(self.gbce_t, alpha))]

GbceStepOutcome(raised, alpha, beta) ==
    [call |-> "training_step", raised |-> raised, result |-> {}, alpha |-> alpha,
     beta |-> beta]

InitGbce ==
    /\ pc = "gbce_fit_called"
    /\ \E raw \in GbceLogs : dataset = Dataset_construct(raw, "None", "None")
    /\ \E n_negatives \in GbceNegativeCounts :
            data_preparator = DataPreparator(MaxSessionLen, Some(n_negatives), 2)
    /\ \E gbce_t \in GbceTs :
            frame = [torch_model |-> None, loss |-> "gBCE", gbce_t |-> gbce_t]
    /\ heap = <<TransformerBasedSessionEncoder(<<"IdEmbeddingsItemNet">>)>>
    /\ processed_dataset = NoDataset
    /\ sequence_dataset = NoSequenceDataset
    /\ batch = <<>>
    /\ batch_dict = NoBatchDict
    /\ outcome = NoOutcome
    /\ history = [calls |-> 0, fits |-> <<>>]
    /\ model_kind = "none"
    /\ sasrec = <<>>
    /\ dssm = <<>>
    /\ NoLoss

\* _fit, line 1287.
GbceProcessDatasetTrain ==
    /\ pc = "gbce_fit_called"
    /\ LET r == process_dataset_train(data_preparator, dataset)
       IN /\ processed_dataset' = r.dataset
          /\ data_preparator' = r.self
    /\ pc' = "gbce_processed"
    /\ UNCHANGED <<dataset, sequence_dataset, batchVars, lossVars, model_kind, sasrec, dssm,
                   heap, frame, outcome, history>>

\* _fit, lines 1290-1291.
GbceConstructItemNet ==
    /\ pc = "gbce_processed"
    /\ LET torch_model == deepcopy(heap, 1)
           r == construct_item_net(torch_model.heap, torch_model.ref, processed_dataset)
       IN /\ heap' = r.heap
          /\ frame' = [frame EXCEPT !.torch_model = Some(torch_model.ref)]
          /\ IF r.raises
             THEN pc' = "gbce_raised" /\ outcome' = RaisedIn("fit")
             ELSE pc' = "gbce_item_net" /\ UNCHANGED outcome
    /\ UNCHANGED <<data_preparator, dataVars, batchVars, lossVars, model_kind, sasrec, dssm,
                   history>>

\* _fit, lines 1293-1300.
GbceLightningModule ==
    /\ pc = "gbce_item_net"
    /\ LET torch_model == Val(frame.torch_model)
           n_actual_items == Val(heap[torch_model].item_model).n_items
                                - n_item_extra_tokens(data_preparator)
           r == _init_loss(frame.loss, frame.gbce_t, n_actual_items)
       IN heap' = new_object(heap, SessionEncoderLightningModule(torch_model,
                                                                 r.loss_calculator)).heap
    /\ pc' = "gbce_module"
    /\ UNCHANGED <<data_preparator, dataVars, batchVars, lossVars, model_kind, sasrec, dssm,
                   frame, outcome, history>>

\* training_step (lines 1185-1187) on the first batch: _calc_gbce_loss takes
\* n_negatives from the shape of the batch's negatives (lines 930, 1105) and
\* _get_reduced_overconfidence_logits derives alpha and beta.
GbceTrainingStep ==
    /\ pc = "gbce_module"
    /\ LET loss_calculator == heap[Len(heap)].loss_calculator
           r == gbce_exponents(loss_calculator, Val(data_preparator.n_negatives))
       IN /\ calculator' = loss_calculator
          /\ outcome' = GbceStepOutcome(r.raises, r.alpha, r.beta)
    /\ pc' = "gbce_stepped"
    /\ UNCHANGED <<data_preparator, dataVars, batchVars, train_logits, train_loss, model_kind,
                   sasrec, dssm, heap, frame, history>>

NextGbce ==
    \/ GbceProcessDatasetTrain
    \/ GbceConstructItemNet
    \/ GbceLightningModule
    \/ GbceTrainingStep

SpecGbce == InitGbce /\ [][NextGbce]_vars

(***************************************************************************)
(* SpecRecommend: _recommend_u2i on the dataset transform_dataset_u2i      *)
(* returns: the recommend dataloader, the predict loop over its batches    *)
(* and the pairing of the requested user_ids with rows of the predict      *)
(* output and of the user-item matrix.  frame holds the arguments and the  *)
(* locals of _recommend_u2i.                                               *)
(***************************************************************************)
RecommendTargets == {users \in TargetUsers : Len(users) <= 2}

\* Arrays of internal ids of users of the transformed dataset the caller
\* asks recommendations for.
RecommendUserIds(ds) ==
    UNION {[1..n -> 0..(IdMap_size(ds.user_id_map) - 1)] : n \in 1..2}

\* DataLoader(shuffle=False), lines 807-813: consecutive batches of at most
\* batch_size sessions.
sequential_batches(sequence, batch_size) ==
    LET n == Len(sequence.sessions)
        n_batches == (n + batch_size - 1) \div batch_size
    IN [b \in 1..n_batches |->
            [i \in 1..Min2(batch_size, n - (b - 1) * batch_size) |->
                LET index == (b - 1) * batch_size + i
                IN [index |-> index, ses |-> sequence.sessions[index],
                    ses_weights |-> sequence.weights[index]]]]

RECURSIVE concatenate(_)
concatenate(arrays) ==
    IF arrays = <<>> THEN <<>>
    ELSE concatenate(AllButLast(arrays)) \o arrays[Len(arrays)]

\* trainer.predict and np.concatenate, lines 1327-1329: predict_step on
\* every collated batch, in the order of the dataloader.
trainer_predict(self, sequence, batch_size) ==
    LET batches == sequential_batches(sequence, batch_size)
    IN concatenate([b \in 1..Len(batches) |->
            predict_step(CHOOSE r \in _collate_fn_recommend(self, batches[b]) : TRUE)])

\* Dataset.get_user_item_matrix(include_weights=False): row u holds the
\* items user u interacted with.
get_user_item_matrix(ds) ==
    [u \in 1..IdMap_size(ds.user_id_map) |->
        {ds.interactions[k].item : k \in {j \in 1..Len(ds.interactions) :
                                            ds.interactions[j].user = u - 1}}]

\* Mutant: the subject indices of the ranker are returned as target ids.
_recommend_u2i_rows_subject_indices(self, session_embs, user_ids, ds, k, filter_viewed) ==
    LET user_items == get_user_item_matrix(ds)
        whitelist == get_known_items_sorted_internal_ids(self)
        ui_csr_for_filter == [i \in 1..Len(user_ids) |->
                                IF filter_viewed THEN user_items[user_ids[i] + 1] ELSE {}]
        n_recos(i) == Min2(k, Cardinality(Range(whitelist) \ ui_csr_for_filter[i]))
        user_ids_indices == concatenate([i \in 1..Len(user_ids) |->
                                            [j \in 1..n_recos(i) |-> i - 1]])
    IN [user_embs |-> [i \in 1..Len(user_ids) |-> session_embs[user_ids[i] + 1]],
        ui_csr_for_filter |-> ui_csr_for_filter,
        all_target_ids |-> user_ids_indices]

\* _recommend_u2i, lines 1330-1354: the rows of user_ids, the filter rows,
\* and the target ids of the ranked pairs (the ranker returns
\* min(k, candidates) pairs per subject, subjects in order).
_recommend_u2i_rows(self, session_embs, user_ids, ds, k, filter_viewed) ==
    LET user_items == get_user_item_matrix(ds)
        whitelist == get_known_items_sorted_internal_ids(self)
        ui_csr_for_filter == [i \in 1..Len(user_ids) |->
                                IF filter_viewed THEN user_items[user_ids[i] + 1] ELSE {}]
        n_recos(i) == Min2(k, Cardinality(Range(whitelist) \ ui_csr_for_filter[i]))
        user_ids_indices == concatenate([i \in 1..Len(user_ids) |->
                                            [j \in 1..n_recos(i) |-> i - 1]])
    IN [user_embs |-> [i \in 1..Len(user_ids) |-> session_embs[user_ids[i] + 1]],
        ui_csr_for_filter |-> ui_csr_for_filter,
        all_target_ids |-> [j \in 1..Len(user_ids_indices) |->
                                user_ids[user_ids_indices[j] + 1]]]

RecommendReturned(user_ids, filter_viewed, rows) ==
    [call |-> "_recommend_u2i", raised |-> FALSE, result |-> {}, user_ids |-> user_ids,
     filter_viewed |-> filter_viewed, user_embs |-> rows.user_embs,
     ui_csr_for_filter |-> rows.ui_csr_for_filter, all_target_ids |-> rows.all_target_ids]

\* _custom_transform_dataset_u2i, line 1308.
RecommendTransformDatasetU2I ==
    /\ pc = "processed_train"
    /\ \E users \in RecommendTargets :
        LET value == transform_dataset_u2i(data_preparator, dataset, users)
        IN /\ processed_dataset' = value
           /\ outcome' = TransformReturned(
                            "transform_dataset_u2i", users, value,
                            transform_dataset_u2i_warnings(data_preparator, dataset, users))
    /\ pc' = "ready_for_recommend"
    /\ UNCHANGED <<data_preparator, dataset, sequence_dataset, batchVars, lossVars, model_kind,
                   sasrec, dssm, heap, frame, history>>

\* _recommend_u2i is entered with the internal ids of requested users of
\* the transformed dataset; line 1326, get_dataloader_recommend.
GetDataloaderRecommend ==
    /\ pc = "ready_for_recommend"
    /\ \E user_ids \in RecommendUserIds(processed_dataset), filter_viewed \in BOOLEAN,
          batch_size \in BatchSizes :
            frame' = [torch_model |-> None, user_ids |-> user_ids,
                      filter_viewed |-> filter_viewed, batch_size |-> batch_size,
                      session_embs |-> <<>>]
    /\ sequence_dataset' = get_dataloader_recommend(data_preparator, processed_dataset)
    /\ pc' = "recommend_dataloader"
    /\ UNCHANGED <<data_preparator, dataset, processed_dataset, batchVars, lossVars, model_kind,
                   sasrec, dssm, heap, outcome, history>>

\* _recommend_u2i, lines 1327-1329.
TrainerPredict ==
    /\ pc = "recommend_dataloader"
    /\ frame' = [frame EXCEPT !.session_embs =
                    trainer_predict(data_preparator, sequence_dataset, frame.batch_size)]
    /\ pc' = "recommend_predicted"
    /\ UNCHANGED <<data_preparator, dataVars, batchVars, lossVars, model_kind, sasrec, dssm,
                   heap, outcome, history>>

\* _recommend_u2i, lines 1330-1358.
RecommendRank ==
    /\ pc = "recommend_predicted"
    /\ \E k \in RecommendKs :
        outcome' = RecommendReturned(frame.user_ids, frame.filter_viewed,
                        _recommend_u2i_rows(data_preparator, frame.session_embs, frame.user_ids,
                                            processed_dataset, k, frame.filter_viewed))
    /\ pc' = "recommended"
    /\ UNCHANGED <<data_preparator, dataVars, batchVars, lossVars, model_kind, sasrec, dssm,
                   heap, frame, history>>

NextRecommend ==
    \/ RecommendTransformDatasetU2I
    \/ GetDataloaderRecommend
    \/ TrainerPredict
    \/ RecommendRank

SpecRecommend == InitTransform /\ [][NextRecommend]_vars

(***************************************************************************)
(* Properties.                                                             *)
(***************************************************************************)
\* Reference reading of an input dataset, independent of the pipeline: the
\* interaction of a user that has exactly r later interactions of that user.
RawRowsOf(raw, u) == {k \in 1..Len(raw) : raw[k].user = u}

LaterRows(raw, k) ==
    Cardinality({j \in RawRowsOf(raw, raw[k].user) : raw[j].datetime > raw[k].datetime})

FromEnd(raw, u, r) == raw[CHOOSE k \in RawRowsOf(raw, u) : LaterRows(raw, k) = r]

\* Position of an external id in an id map, counted from zero.
PositionOf(id_map, ext) == Cardinality({k \in 1..Len(id_map) :
                                \E j \in (k + 1)..Len(id_map) : id_map[j] = ext})

\* The external user whose session a batch entry holds: sessions are listed
\* in ascending internal user id of the processed dataset.
BatchUser(i) == processed_dataset.user_id_map[batch[i].index]

\* C2: right truncation law.  In every collated training batch, the row of a
\* user with more than session_max_len interactions holds at position
\* session_max_len - t (t = 0, 1, ...) the user's (t+1)-th most recent item
\* in x and the t-th most recent item in y: the most recent session_max_len
\* transitions in time order, nothing older, no padding.
C2_RightTruncation ==
    (pc = "collated_train" /\ ~batch_dict.raises) =>
        \A i \in 1..Len(batch) :
            LET raw == get_raw_interactions(dataset)
                u == BatchUser(i)
                L == data_preparator.session_max_len
                id_map == Val(data_preparator.item_id_map)
            IN Cardinality(RawRowsOf(raw, u)) > L =>
                /\ Len(batch_dict.x[i]) = L
                /\ Len(batch_dict.y[i]) = L
                /\ \A t \in 0..(L - 1) :
                    /\ batch_dict.x[i][L - t] = PositionOf(id_map, FromEnd(raw, u, t + 1).item)
                    /\ batch_dict.y[i][L - t] = PositionOf(id_map, FromEnd(raw, u, t).item)

\* C2 witness: a batch row of a user with more than session_max_len + 1
\* interactions, whose oldest interactions were cut.
C2_Witness ==
    /\ pc = "collated_train"
    /\ ~batch_dict.raises
    /\ \E i \in 1..Len(batch) :
        Cardinality(RawRowsOf(get_raw_interactions(dataset), BatchUser(i)))
            > data_preparator.session_max_len + 1

\* C3: a session of length n with 2 <= n <= session_max_len + 1 is collated
\* without raising into rows x, y, yw of length session_max_len that are
\* session_max_len - n + 1 zeros followed by ses[:-1], ses[1:] and w[1:];
\* ses = [1,2,3,4] with session_max_len = 3 gives x = [1,2,3], y = [2,3,4].
C3_CollateTrainLayout ==
    /\ (pc = "collated_train" /\ Len(batch[1].ses) \in 2..(data_preparator.session_max_len + 1)) =>
        LET L == data_preparator.session_max_len
            ses == batch[1].ses
            w == batch[1].ses_weights
            pad == L - Len(ses) + 1
        IN /\ ~batch_dict.raises
           /\ Len(batch_dict.x[1]) = L
           /\ Len(batch_dict.y[1]) = L
           /\ Len(batch_dict.yw[1]) = L
           /\ \A j \in 1..L :
                /\ batch_dict.x[1][j] = (IF j <= pad THEN 0 ELSE ses[j - pad])
                /\ batch_dict.y[1][j] = (IF j <= pad THEN 0 ELSE ses[j - pad + 1])
                /\ batch_dict.yw[1][j] = (IF j <= pad THEN 0 ELSE w[j - pad + 1])
    /\ LET scenario == DataPreparator(3, None, 2)
       IN /\ ~collate_row_raises(scenario, <<1, 2, 3, 4>>)
          /\ collate_x(scenario, <<1, 2, 3, 4>>) = <<1, 2, 3>>
          /\ collate_y(scenario, <<1, 2, 3, 4>>) = <<2, 3, 4>>

\* C3 witness: a collated session that needed padding.
C3_Witness ==
    /\ pc = "collated_train"
    /\ ~batch_dict.raises
    /\ Len(batch[1].ses) >= 2
    /\ Len(batch[1].ses) < data_preparator.session_max_len + 1
    /\ batch_dict.x[1][1] = 0

\* C4: in a training row built from a session shorter than
\* session_max_len + 1 padding is on the left only: the PAD positions of y
\* are a prefix, y is PAD exactly where x is PAD, and yw is 0 wherever y is
\* PAD.
C4_LeftPadding ==
    (pc = "collated_train" /\ ~batch_dict.raises
        /\ Len(batch[1].ses) < data_preparator.session_max_len + 1) =>
        LET L == data_preparator.session_max_len
            x == batch_dict.x[1]
            y == batch_dict.y[1]
            yw == batch_dict.yw[1]
        IN /\ \A j \in 1..L : (y[j] = 0) <=> (x[j] = 0)
           /\ \A j \in 1..L : y[j] = 0 => yw[j] = 0
           /\ \A j \in 2..L : y[j] = 0 => y[j - 1] = 0
           /\ y[1] = 0

\* C4 witness: a padded row with a real target and a nonzero weight after
\* the padding.
C4_Witness ==
    /\ pc = "collated_train"
    /\ ~batch_dict.raises
    /\ data_preparator.session_max_len >= 2
    /\ batch_dict.y[1][1] = 0
    /\ batch_dict.y[1][2] # 0
    /\ batch_dict.yw[1][2] # 0

\* C7: after process_dataset_train every configured extra token has an
\* internal id below n_item_extra_tokens (PAD has id 0), extra_token_ids
\* records exactly those ids, and every item of the retained training
\* interactions has an internal id in [n_item_extra_tokens, item_id_map.size).
C7_ExtraTokenIds ==
    pc \in {"processed_train", "dataloader_train", "collated_train"} =>
        LET tokens == data_preparator.item_extra_tokens
            id_map == Val(data_preparator.item_id_map)
        IN /\ ~IsNone(data_preparator.item_id_map)
           /\ ~IsNone(data_preparator.extra_token_ids)
           /\ PositionOf(id_map, PADDING_VALUE) = 0
           /\ Len(Val(data_preparator.extra_token_ids)) = Len(tokens)
           /\ \A k \in 1..Len(tokens) :
                /\ tokens[k] \in Range(id_map)
                /\ PositionOf(id_map, tokens[k]) < n_item_extra_tokens(data_preparator)
                /\ Val(data_preparator.extra_token_ids)[k] = PositionOf(id_map, tokens[k])
           /\ \A k \in 1..Len(processed_dataset.interactions) :
                /\ processed_dataset.interactions[k].item >= n_item_extra_tokens(data_preparator)
                /\ processed_dataset.interactions[k].item < Len(id_map)
           /\ processed_dataset.item_id_map = id_map

\* C7 witness: a processed dataset with at least two catalog items.
C7_Witness ==
    /\ pc = "processed_train"
    /\ Len(processed_dataset.interactions) >= 2
    /\ Len(Val(data_preparator.item_id_map)) >= 3

\* C8: with n_negatives configured the batch carries negatives of shape
\* (batch_size, session_max_len, n_negatives), padded target positions
\* included, every id in [n_item_extra_tokens, item_id_map.size); with
\* n_negatives None the batch has no negatives entry.
C8_NegativesShapeAndRange ==
    (pc = "collated_train" /\ ~batch_dict.raises) =>
        IF IsNone(data_preparator.n_negatives)
        THEN IsNone(batch_dict.negatives)
        ELSE /\ ~IsNone(batch_dict.negatives)
             /\ LET negatives == Val(batch_dict.negatives)
                IN /\ DOMAIN negatives = 1..Len(batch)
                   /\ \A i \in 1..Len(batch) :
                        /\ DOMAIN negatives[i] = 1..data_preparator.session_max_len
                        /\ \A j \in 1..data_preparator.session_max_len :
                            /\ DOMAIN negatives[i][j] = 1..Val(data_preparator.n_negatives)
                            /\ \A k \in 1..Val(data_preparator.n_negatives) :
                                /\ negatives[i][j][k] >= n_item_extra_tokens(data_preparator)
                                /\ negatives[i][j][k] < Len(Val(data_preparator.item_id_map))

\* C8 witness: negatives sampled for a row whose first target is PAD.
C8_Witness ==
    /\ pc = "collated_train"
    /\ ~batch_dict.raises
    /\ ~IsNone(batch_dict.negatives)
    /\ batch_dict.y[1][1] = 0
    /\ Val(batch_dict.negatives)[1][1][1] = 2

\* C9: at every position whose target is a real item, none of the sampled
\* negatives equals the target.
C9_NegativesAreNonTarget ==
    (pc = "collated_train" /\ ~batch_dict.raises /\ ~IsNone(batch_dict.negatives)) =>
        \A i \in 1..Len(batch) : \A j \in 1..data_preparator.session_max_len :
            batch_dict.y[i][j] # 0 =>
                \A k \in 1..Val(data_preparator.n_negatives) :
                    Val(batch_dict.negatives)[i][j][k] # batch_dict.y[i][j]

\* C5: for the softmax, the BCE and the gBCE calculator the weighted loss
\* term of every position whose target is PAD is exactly 0, whatever the
\* logits and the weight of that position are.
C5_PadTermIsZero ==
    pc = "loss_done" =>
        \A j \in 1..Len(batch_dict.y[1]) :
            batch_dict.y[1][j] = 0 => train_loss.terms[j] = F(0)

\* The fit state a successful fit left: what C1 compares against.
LastFit == history.fits[Len(history.fits)]

\* C1: when a fit call on an already fitted transformer facade raises, the
\* item_id_map and extra_token_ids of the preparator, lightning_model with
\* its cached item_embs, and trainer are those the previous successful fit
\* left.
C1_FailedFitLeavesFitState ==
    (/\ model_kind = "sasrec"
     /\ pc = "idle"
     /\ outcome = RaisedIn("fit")
     /\ Len(history.fits) > 0) =>
        /\ data_preparator.item_id_map = LastFit.item_id_map
        /\ data_preparator.extra_token_ids = LastFit.extra_token_ids
        /\ sasrec.lightning_model = Some(LastFit.lightning_model)
        /\ heap[LastFit.lightning_model] = LastFit.lightning_state
        /\ sasrec.trainer = Some(LastFit.trainer)
        /\ heap[LastFit.trainer] = LastFit.trainer_state

\* C6: every item id a recommend_u2i or recommend_i2i call returns is at
\* least n_item_extra_tokens, with the default candidates and with any
\* whitelist the caller passes.
C6_NoExtraTokenRecommended ==
    outcome.call \in {"recommend_u2i", "recommend_i2i"} =>
        \A item \in outcome.result : item >= n_item_extra_tokens(data_preparator)

\* C10: fit never mutates the templates and trains a fresh copy each time:
\* _torch_model has no item network and is untrained, _trainer (and for DSSM
\* the supplied _model and _trainer) is as constructed, and the encoder,
\* model and trainer of each fit are objects different from the templates
\* and from those of every earlier fit.
C10_FitTrainsFreshCopy ==
    /\ model_kind = "sasrec" =>
        /\ IsNone(heap[sasrec._torch_model].item_model)
        /\ ~heap[sasrec._torch_model].trained
        /\ heap[sasrec._trainer] = Trainer
        /\ ~IsNone(frame.torch_model) => Val(frame.torch_model) # sasrec._torch_model
        /\ \A i \in 1..Len(history.fits) :
            /\ history.fits[i].torch_model # sasrec._torch_model
            /\ history.fits[i].trainer # sasrec._trainer
            /\ heap[history.fits[i].lightning_model].torch_model = history.fits[i].torch_model
            /\ \A j \in 1..(i - 1) :
                /\ history.fits[j].torch_model # history.fits[i].torch_model
                /\ history.fits[j].trainer # history.fits[i].trainer
    /\ model_kind = "dssm" =>
        /\ heap[dssm._trainer] = Trainer
        /\ ~IsNone(dssm._model) => heap[Val(dssm._model)] = DSSM
        /\ \A i \in 1..Len(history.fits) :
            /\ history.fits[i].trainer # dssm._trainer
            /\ ~IsNone(dssm._model) => history.fits[i].model # Val(dssm._model)
            /\ \A j \in 1..(i - 1) :
                /\ history.fits[j].model # history.fits[i].model
                /\ history.fits[j].trainer # history.fits[i].trainer

\* A second fit of the transformer facade has completed, on a trained copy
\* that carries an item network.
C10_Witness ==
    /\ model_kind = "sasrec"
    /\ pc = "idle"
    /\ Len(history.fits) = 2
    /\ heap[history.fits[2].torch_model].trained
    /\ ~IsNone(heap[history.fits[2].torch_model].item_model)

\* Whether a fit call of an already fitted facade is between
\* process_dataset_train and the end of training.
RefitRunning == pc \in {"fit_processed", "fit_item_net", "fit_lightning"} /\ sasrec.is_fitted

\* C11: while a second fit runs, the preparator's vocabulary is already the
\* one of the running fit, while lightning_model is still the module of the
\* previous fit with the previous snapshot (until line 1294 replaces it) or a
\* new module without item_embs (until training ends); a recommend call
\* interleaved there reads exactly that pair, and fails when item_embs is
\* missing.
C11_InterleavedRecommendReadsMixedState ==
    /\ (RefitRunning /\ Len(history.fits) > 0) =>
        /\ data_preparator.item_id_map = Some(processed_dataset.item_id_map)
        /\ pc \in {"fit_processed", "fit_item_net"} =>
            /\ sasrec.lightning_model = Some(LastFit.lightning_model)
            /\ heap[LastFit.lightning_model].item_embs = LastFit.lightning_state.item_embs
        /\ pc = "fit_lightning" =>
            /\ sasrec.lightning_model # Some(LastFit.lightning_model)
            /\ IsNone(heap[Val(sasrec.lightning_model)].item_embs)
    /\ (outcome.call \in {"recommend_u2i", "recommend_i2i"} /\ pc # "idle"
            /\ outcome.at = pc) =>
        /\ outcome.reads = recommend_reads(data_preparator, sasrec, heap)
        /\ IsNone(outcome.reads.item_embs) => outcome.raised

\* A recommend call ran during a second fit and read a vocabulary whose size
\* differs from the number of rows of the item embeddings it read.
C11_Witness ==
    /\ outcome.call = "recommend_u2i"
    /\ outcome.at = "fit_processed"
    /\ pc = "fit_processed"
    /\ ~outcome.raised
    /\ IdMap_size(Val(outcome.reads.item_id_map)) # Val(outcome.reads.item_embs).n_items

\* C12: a DSSM fit that raises because the dataset lacks item or user
\* features leaves the trainer and model attributes as they were before the
\* call (unset before the first fit, those of the last completed fit
\* otherwise).  Here the raising call is the only call that did not
\* complete.
C12_FailedDSSMFitMutatesNothing ==
    (/\ model_kind = "dssm"
     /\ pc = "idle"
     /\ outcome = RaisedIn("fit")
     /\ history.calls = Len(history.fits) + 1) =>
        IF Len(history.fits) = 0
        THEN IsNone(dssm.trainer) /\ IsNone(dssm.model)
        ELSE dssm.trainer = Some(LastFit.trainer) /\ dssm.model = Some(LastFit.model)

\* C13: whatever the DSSMModel configuration, _fit gets past the feature
\* check (to building the training dataset, line 348) only with a dataset that
\* has both user and item features.
C13_DSSMFitFailsFast ==
    (model_kind = "dssm" /\ pc = "dssm_fit_model") =>
        /\ dataset.user_features # "None"
        /\ dataset.item_features.kind # "None"

\* The datasets from which CatFeaturesItemNet cannot be built.
NoCatBlockKinds == {"None", "Dense", "SparseNoCat"}

\* C14: when IdEmbeddingsItemNet and CatFeaturesItemNet are requested and
\* the dataset of the fit call has no item
\* features, dense item features or no categorical columns, the call gets
\* through process_dataset_train and construct_item_net without raising and
\* the item net holds the remaining blocks.
C14_UnbuildableBlockIsSkipped ==
    [][(/\ model_kind = "sasrec"
        /\ heap[sasrec._torch_model].item_net_block_types
                = <<"IdEmbeddingsItemNet", "CatFeaturesItemNet">>
        /\ dataset'.item_features.kind \in NoCatBlockKinds) =>
            /\ (pc = "idle" /\ history'.calls > history.calls) => pc' = "fit_processed"
            /\ pc = "fit_processed" =>
                /\ pc' = "fit_item_net"
                /\ Val(heap'[Val(frame'.torch_model)].item_model).item_net_blocks
                        = <<"IdEmbeddingsItemNet">>]_vars

\* The requested block types that can be built from the dataset, in the
\* requested order.
BuildableBlocks ==
    LET Buildable(t) == t = "IdEmbeddingsItemNet" \/ dataset.item_features.kind = "SparseCat"
    IN SelectSeq(heap[1].item_net_block_types, Buildable)

\* How many of the kept blocks have the given type.
KeptBlocksOfType(t) == Len(SelectSeq(BuildableBlocks, LAMBDA b : b = t))

\* C15: the item net keeps exactly the buildable blocks in the requested
\* order, construction raises exactly when none is kept, and the embedding
\* of every catalog id 0 .. n_items - 1 is the sum of the kept blocks'
\* embeddings of that id.
C15_ItemNetKeepsBlocksAndSums ==
    /\ pc = "item_net_raised" <=> (pc # "item_net_requested" /\ BuildableBlocks = <<>>)
    /\ pc \in {"item_net_constructed", "item_net_embedded"} =>
        /\ Val(heap[1].item_model).item_net_blocks = BuildableBlocks
        /\ Val(heap[1].item_model).n_items = IdMap_size(dataset.item_id_map)
    /\ pc = "item_net_embedded" =>
        /\ Len(outcome.embeddings.rows) = IdMap_size(dataset.item_id_map)
        /\ \A item \in 0..(IdMap_size(dataset.item_id_map) - 1) :
            outcome.embeddings.rows[item + 1] =
                KeptBlocksOfType("IdEmbeddingsItemNet")
                    * block_embedding("IdEmbeddingsItemNet", dataset.item_features.rows, item)
                + (IF KeptBlocksOfType("CatFeaturesItemNet") = 0 THEN 0
                   ELSE KeptBlocksOfType("CatFeaturesItemNet")
                    * block_embedding("CatFeaturesItemNet", dataset.item_features.rows, item))

\* Both block types were kept and summed on a processed dataset, whose extra
\* token has an all-zero feature row.
C15_Witness ==
    /\ pc = "item_net_embedded"
    /\ BuildableBlocks = <<"IdEmbeddingsItemNet", "CatFeaturesItemNet">>
    /\ dataset.item_id_map[1] = PADDING_VALUE
    /\ outcome.embeddings.rows[1] = 1
    /\ outcome.embeddings.rows[2] = 22

\* The vocabulary built by the last process_dataset_train call that returned.
LifecycleVocabulary ==
    build_item_id_map(data_preparator, filter_interactions(data_preparator, dataset))

VocabularyReaders ==
    {"get_known_item_ids", "get_known_items_sorted_internal_ids", "transform_dataset_u2i",
     "transform_dataset_i2i", "_collate_fn_train"}

\* C16: the preparator is uninitialized until process_dataset_train returns,
\* and only that call assigns item_id_map and extra_token_ids; called before
\* it, get_known_item_ids, get_known_items_sorted_internal_ids,
\* transform_dataset_u2i, transform_dataset_i2i and the train collation with
\* negative sampling raise; called after it, each returns a result over the
\* vocabulary of the most recent process_dataset_train call, and the
\* transforms leave the preparator ready for recommend.
C16_PreparatorLifecycle ==
    /\ pc \in {"uninitialized", "processed_train", "ready_for_recommend"}
    /\ (pc = "uninitialized") <=> IsNone(data_preparator.item_id_map)
    /\ (pc = "uninitialized") <=> IsNone(data_preparator.extra_token_ids)
    /\ (pc = "uninitialized") <=> (dataset = NoDataset)
    /\ (pc # "uninitialized") => Val(data_preparator.item_id_map) = LifecycleVocabulary
    /\ (outcome.call \in VocabularyReaders) =>
         IF outcome.at = "uninitialized"
         THEN /\ pc = "uninitialized"
              /\ outcome.raised <=> (outcome.call = "_collate_fn_train"
                                        => ~IsNone(data_preparator.n_negatives))
         ELSE LET V == LifecycleVocabulary
                  known == n_item_extra_tokens(data_preparator)..(Len(V) - 1)
              IN /\ ~outcome.raised
                 /\ outcome.call = "get_known_item_ids" =>
                        outcome.value = [i \in 1..(Len(V) - 1) |-> V[i + 1]]
                 /\ outcome.call = "get_known_items_sorted_internal_ids" =>
                        outcome.value = [i \in 1..(Len(V) - 1) |-> i]
                 /\ outcome.call \in {"transform_dataset_u2i", "transform_dataset_i2i"} =>
                        /\ pc = "ready_for_recommend"
                        /\ outcome.value.item_id_map = V
                        /\ \A i \in 1..Len(outcome.value.interactions) :
                                outcome.value.interactions[i].item \in known
                 /\ (outcome.call = "_collate_fn_train"
                        /\ ~IsNone(data_preparator.n_negatives)) =>
                        \A i \in DOMAIN Val(outcome.value.negatives) :
                        \A j \in DOMAIN Val(outcome.value.negatives)[i] :
                        \A k \in DOMAIN Val(outcome.value.negatives)[i][j] :
                            Val(outcome.value.negatives)[i][j][k] \in known

\* C16 witness: after a second process_dataset_train call narrowed the
\* vocabulary to one item, transform_dataset_u2i returned interactions in it.
C16_Witness ==
    /\ history.calls = 2
    /\ pc = "ready_for_recommend"
    /\ outcome.call = "transform_dataset_u2i"
    /\ ~outcome.raised
    /\ outcome.value.item_id_map = <<PADDING_VALUE, "b">>
    /\ Len(outcome.value.interactions) > 0

\* C17: get_vectors on a DSSM model that is not fitted raises NotFittedError
\* before it builds a dataloader or runs a tower; on a fitted model, whenever
\* it returns it returns the user embeddings first and the item embeddings
\* second, both of the model of the latest fit, and it returns for every
\* dataset that carries user and item features.
C17_GetVectorsNeedsFit ==
    (model_kind = "dssm" /\ pc = "idle" /\ outcome.call = "get_vectors") =>
        IF ~dssm.is_fitted
        THEN /\ outcome.raised
             /\ outcome.error = "NotFittedError"
             /\ outcome.steps = <<>>
        ELSE /\ outcome.error # "NotFittedError"
             /\ ~outcome.raised =>
                    /\ Len(outcome.value) = 2
                    /\ outcome.value[1] = [tower |-> "user", model |-> Val(dssm.model),
                                           trained |-> heap[Val(dssm.model)].trained]
                    /\ outcome.value[2] = [tower |-> "item", model |-> Val(dssm.model),
                                           trained |-> heap[Val(dssm.model)].trained]
             /\ (outcome.user_features # "None" /\ outcome.item_features # "None") =>
                    ~outcome.raised

\* C17 witness: a fitted model returned the pair of embeddings.
C17_Witness ==
    /\ model_kind = "dssm"
    /\ dssm.is_fitted
    /\ outcome.call = "get_vectors"
    /\ ~outcome.raised
    /\ outcome.value[1].tower = "user"
    /\ outcome.value[1].trained
    /\ outcome.value[2].tower = "item"

\* C18: a recommend_u2i or recommend_i2i call on a fitted transformer facade
\* reads lightning_model.item_embs as it is stored, leaves the heap and the
\* facade as they are, and when it returns, the embeddings it ranked with are
\* the snapshot on_train_end took at the end of the last completed fit; the
\* facade's lightning_model and its item_embs change only in a step of a fit.
C18_SnapshotReusedUnchanged ==
    [][(model_kind = "sasrec" /\ sasrec.is_fitted) =>
        LET lightning_model == Val(sasrec.lightning_model)
        IN /\ (pc = "idle" /\ pc' = "idle"
                    /\ outcome'.call \in {"recommend_u2i", "recommend_i2i"}) =>
                /\ heap' = heap
                /\ sasrec' = sasrec
                /\ outcome'.reads.item_embs = heap[lightning_model].item_embs
                /\ ~outcome'.raised =>
                    /\ lightning_model = LastFit.lightning_model
                    /\ outcome'.reads.item_embs = LastFit.lightning_state.item_embs
                    /\ ~IsNone(outcome'.reads.item_embs)
           /\ (sasrec'.lightning_model # sasrec.lightning_model
                    \/ heap'[lightning_model].item_embs # heap[lightning_model].item_embs) =>
                pc \in {"fit_item_net", "fit_lightning"}]_vars

\* C18 witness: after two completed fits a recommend call returned items
\* ranked with the snapshot of the second fit.
C18_Witness ==
    /\ model_kind = "sasrec"
    /\ pc = "idle"
    /\ Len(history.fits) = 2
    /\ outcome.call = "recommend_u2i"
    /\ ~outcome.raised
    /\ outcome.result # {}
    /\ outcome.reads.item_embs = heap[Val(sasrec.lightning_model)].item_embs
    /\ outcome.reads.item_embs = LastFit.lightning_state.item_embs

\* Reference reading of the retained interactions: the rows of the users
\* with at least m rows that have fewer than n later rows of their user.
RetainedRows(raw, n, m) ==
    {raw[k] : k \in {j \in 1..Len(raw) :
                        /\ Cardinality(RawRowsOf(raw, raw[j].user)) >= m
                        /\ LaterRows(raw, j) < n}}

\* C19: the interactions of the processed dataset are exactly, and each
\* once, the session_max_len + 1 most recent interactions (all when there are
\* fewer) of every user with at least train_min_user_interactions
\* interactions in the input; no interaction of any other user is kept.
C19_RetainedInteractions ==
    pc \in {"processed_train", "dataloader_train", "collated_train"} =>
        LET raw == get_raw_interactions(dataset)
            kept == get_raw_interactions(processed_dataset)
            retained == RetainedRows(raw, data_preparator.session_max_len + 1,
                                     data_preparator.train_min_user_interactions)
        IN /\ Range(kept) = retained
           /\ Len(kept) = Cardinality(retained)

\* C19 witness: one user was dropped for having too few interactions and
\* another lost the oldest interactions.
C19_Witness ==
    /\ pc = "processed_train"
    /\ LET raw == get_raw_interactions(dataset)
           kept == get_raw_interactions(processed_dataset)
       IN /\ \E k \in 1..Len(raw) : \A j \in 1..Len(kept) : kept[j].user # raw[k].user
          /\ \E k \in 1..Len(raw) :
                /\ raw[k] \notin Range(kept)
                /\ \E j \in 1..Len(kept) : kept[j].user = raw[k].user

\* C20: for every preparator configuration, every user of the processed
\* dataset has at least 2 interactions in it, and every session handed to
\* _collate_fn_train has at least 2 items and is collated without raising
\* into a row with at least one real target.
C20_SessionsHaveAPair ==
    /\ pc \in {"processed_train", "dataloader_train", "collated_train"} =>
        LET kept == get_raw_interactions(processed_dataset)
        IN \A k \in 1..Len(kept) : Cardinality(RawRowsOf(kept, kept[k].user)) >= 2
    /\ pc = "collated_train" =>
        /\ \A i \in 1..Len(batch) : Len(batch[i].ses) >= 2
        /\ ~batch_dict.raises
        /\ \A i \in 1..Len(batch) : \E j \in 1..Len(batch_dict.y[i]) : batch_dict.y[i][j] # 0

\* The external items of the model's vocabulary that are not extra tokens.
KnownItems ==
    {Val(data_preparator.item_id_map)[k] :
        k \in (n_item_extra_tokens(data_preparator) + 1)..Len(Val(data_preparator.item_id_map))}

\* The target users that have an interaction with a known item in dataset.
SupportedTargets(users) ==
    {u \in Range(users) :
        \E k \in 1..Len(get_raw_interactions(dataset)) :
            /\ get_raw_interactions(dataset)[k].user = u
            /\ get_raw_interactions(dataset)[k].item \in KnownItems}

\* C21: transform_dataset_u2i returns exactly the target users' interactions
\* with known items, a user id map of exactly the target users that have
\* one (each once), and the model's item id map; it warns if and only if a
\* target user was dropped, and the warning reports the number of dropped
\* target users.
C21_TransformU2I ==
    outcome.call = "transform_dataset_u2i" =>
        LET raw == get_raw_interactions(dataset)
            kept == get_raw_interactions(outcome.value)
            keep(r) == r.user \in Range(outcome.users) /\ r.item \in KnownItems
            supported == SupportedTargets(outcome.users)
            dropped == Range(outcome.users) \ supported
        IN /\ ~outcome.raised
           /\ kept = SelectSeq(raw, keep)
           /\ Range(outcome.value.user_id_map) = supported
           /\ Len(outcome.value.user_id_map) = Cardinality(supported)
           /\ outcome.value.item_id_map = Val(data_preparator.item_id_map)
           /\ outcome.warnings = IF dropped = {} THEN <<>> ELSE <<Cardinality(dropped)>>

\* C22: transform_dataset_i2i returns the input dataset's user id map as it
\* is, the model's item id map, and exactly the input interactions with a
\* known item, each with the internal user id it had in the input.
C22_TransformI2I ==
    outcome.call = "transform_dataset_i2i" =>
        LET raw == get_raw_interactions(dataset)
            keep(r) == r.item \in KnownItems
            keep_internal(r) == to_external(dataset.item_id_map, r.item) \in KnownItems
        IN /\ ~outcome.raised
           /\ outcome.value.user_id_map = dataset.user_id_map
           /\ outcome.value.item_id_map = Val(data_preparator.item_id_map)
           /\ get_raw_interactions(outcome.value) = SelectSeq(raw, keep)
           /\ Column(outcome.value.interactions, "user")
                = Column(SelectSeq(dataset.interactions, keep_internal), "user")
           /\ \A k \in 1..Len(outcome.value.interactions) :
                outcome.value.interactions[k].item >= n_item_extra_tokens(data_preparator)

\* C22 witness: a user all of whose interactions were with unknown items is
\* still in the user id map, before a user that kept an interaction.
C22_Witness ==
    /\ outcome.call = "transform_dataset_i2i"
    /\ Len(outcome.value.user_id_map) = 2
    /\ Len(outcome.value.interactions) > 0
    /\ \A k \in 1..Len(outcome.value.interactions) : outcome.value.interactions[k].user = 1

\* C23: for a non-empty session of n items, _collate_fn_recommend returns
\* without raising a row of session_max_len positions that ends with the
\* last min(n, session_max_len) items of the session in order, has PAD in
\* every position before them, and has no targets, weights or negatives; the
\* last position holds the most recent item and is not PAD, and predict_step
\* returns the encoder state of that position.
C23_RecommendRow ==
    pc \in {"collated_recommend", "predicted"} =>
        /\ ~batch_dict.raises
        /\ batch_dict.y = <<>> /\ batch_dict.yw = <<>> /\ IsNone(batch_dict.negatives)
        /\ Len(batch_dict.x) = Len(batch)
        /\ \A i \in 1..Len(batch) :
            LET ses == batch[i].ses
                L == data_preparator.session_max_len
                n == Min2(Len(ses), L)
            IN /\ Len(ses) > 0
               /\ Len(batch_dict.x[i]) = L
               /\ \A j \in 1..(L - n) : batch_dict.x[i][j] = 0
               /\ \A t \in 1..n : batch_dict.x[i][L - n + t] = ses[Len(ses) - n + t]
               /\ batch_dict.x[i][L] = ses[Len(ses)]
               /\ batch_dict.x[i][L] # 0
               /\ pc = "predicted" =>
                    /\ outcome.value[i].position = L
                    /\ outcome.value[i].sessions = batch_dict.x[i]

\* C23 witness: a session longer than session_max_len whose first and last
\* items differ was cut to its last items and predicted.
C23_Witness ==
    /\ pc = "predicted"
    /\ Len(batch[1].ses) > data_preparator.session_max_len
    /\ batch[1].ses[1] # batch[1].ses[Len(batch[1].ses)]
    /\ data_preparator.session_max_len >= 2
    /\ outcome.value[1].position = data_preparator.session_max_len

\* C24: constructing the lightning module with loss "softmax", "BCE" or
\* "gBCE" gives the softmax, BCE or gBCE calculator, the last with the
\* module's gbce_t and n_actual_items; a LossCalculatorBase instance is the
\* calculator itself; every other value raises in the constructor, and no
\* training step runs on a module that was not constructed.
C24_LossSelection ==
    /\ pc \in {"module_requested", "module_raised", "module_constructed"}
    /\ pc = "module_raised" <=>
            (outcome.call = "SessionEncoderLightningModule" /\ outcome.raised)
    /\ pc = "module_raised" =>
        /\ frame.loss \notin {"softmax", "BCE", "gBCE"} \cup LossCalculatorInstances
        /\ Len(heap) = 1
        /\ history.calls = 0
        /\ calculator = NoLossCalculator
    /\ pc = "module_constructed" =>
        LET loss_calculator == heap[Len(heap)].loss_calculator
        IN /\ frame.loss = "softmax" => loss_calculator.kind = "softmax"
           /\ frame.loss = "BCE" => loss_calculator.kind = "BCE"
           /\ frame.loss = "gBCE" =>
                loss_calculator = [kind |-> "gBCE", gbce_t |-> frame.gbce_t,
                                   n_actual_items |-> frame.n_actual_items]
           /\ frame.loss \in LossCalculatorInstances => loss_calculator.kind = frame.loss
           /\ frame.loss \in {"softmax", "BCE", "gBCE"} \cup LossCalculatorInstances
           /\ history.calls > 0 => calculator = loss_calculator

\* C24 witness: a module given a calculator instance ran a training step
\* with it.
C24_Witness ==
    /\ pc = "module_constructed"
    /\ frame.loss \in LossCalculatorInstances
    /\ history.calls = 1
    /\ calculator.kind = frame.loss

\* Query positions of the encoded row that may attend to no key at all.
QueriesWithoutKey ==
    {i \in 1..Len(batch[1]) :
        \A j \in 1..Len(batch[1]) :
            ~permitted_key(frame.attn_mask, frame.key_padding_mask, i, j)}

(***************************************************************************)
(* C25: in encode_sessions the causal mask lets query position i attend    *)
(* only to key positions j <= i, and the key-padding mask blocks exactly   *)
(* the PAD keys; for a non-empty left-padded session a query position with *)
(* no permitted key exists exactly when use_causal_attn and                *)
(* use_key_padding_mask are both enabled and the session holds a PAD, and  *)
(* the encoder neither raises on nor repairs that combination.             *)
(***************************************************************************)
C25_AttentionMasks ==
    pc \in {"layers_called", "block_input", "after_attention", "encoded"} =>
        LET sessions == batch[1]
            positions == 1..Len(sessions)
        IN /\ IsNone(frame.attn_mask) = ~frame.use_causal_attn
           /\ IsNone(frame.key_padding_mask) = ~frame.use_key_padding_mask
           /\ frame.use_causal_attn =>
                \A i \in positions, j \in positions :
                    ~Val(frame.attn_mask)[i][j] <=> j <= i
           /\ frame.use_key_padding_mask =>
                \A j \in positions : Val(frame.key_padding_mask)[j] <=> sessions[j] = 0
           /\ QueriesWithoutKey # {} <=>
                /\ frame.use_causal_attn
                /\ frame.use_key_padding_mask
                /\ \E j \in positions : sessions[j] = 0
           /\ pc = "encoded" => ~outcome.raised

C25_Witness ==
    /\ pc = "encoded"
    /\ frame.use_causal_attn
    /\ frame.use_key_padding_mask
    /\ QueriesWithoutKey # {}
    /\ ~outcome.raised
    /\ \E j \in 1..Len(batch[1]) : batch[1][j] # 0 /\ j \notin QueriesWithoutKey

(***************************************************************************)
(* C26: in SASRecTransformerLayers.forward the hidden state at every       *)
(* padded position is zero after every sub-layer of every block (after the *)
(* attention sub-layer and after the feed-forward sub-layer), and the      *)
(* final layer norm is applied exactly once after the last block.          *)
(***************************************************************************)
C26_PaddedPositionsZero ==
    /\ pc \in {"block_input", "after_attention"} =>
            \A j \in 1..Len(batch[1]) : batch[1][j] = 0 => frame.seqs[j] = "zero"
    /\ pc = "encoded" => frame.last_layernorm = 1 /\ frame.block = frame.n_blocks
    /\ pc \in {"layers_called", "block_input", "after_attention"} => frame.last_layernorm = 0

(***************************************************************************)
(* C27: the softmax loss is the sum over all positions of the cross        *)
(* entropy with PAD targets ignored times the interaction weight, divided  *)
(* by the number of positions whose weighted loss is nonzero, for every    *)
(* row of targets and weights, zero and negative weights at non-PAD        *)
(* targets included.                                                       *)
(***************************************************************************)
C27_SoftmaxLossIsMeanOfNonzeroTerms ==
    (pc = "loss_done" /\ calculator.kind = "softmax") =>
        LET y == batch_dict.y[1]
            w == batch_dict.yw[1]
            weighted == [j \in 1..Len(y) |->
                            IF y[j] = 0 THEN F(0)
                            ELSE fscale(cross_entropy(train_logits[j], y[j]), w[j])]
        IN /\ train_loss.terms = weighted
           /\ train_loss.sum = fsum(weighted)
           /\ train_loss.n = Cardinality({j \in 1..Len(y) : weighted[j] # F(0)})

(***************************************************************************)
(* C28: the gBCE calculator a fit creates has n_actual_items equal to the  *)
(* size of the item catalog minus n_item_extra_tokens, and its training    *)
(* step takes alpha = n_negatives / (n_actual_items - 1); whenever         *)
(* n_negatives = n_actual_items - 1, so that alpha is 1, the exponent beta *)
(* is exactly 1 for every gbce_t and the step does not raise.              *)
(***************************************************************************)
C28_GbceCalibration ==
    LET catalog_size == IdMap_size(Val(data_preparator.item_id_map))
        n_tokens == Len(data_preparator.item_extra_tokens)
        n_negatives == Val(data_preparator.n_negatives)
    IN /\ pc \in {"gbce_module", "gbce_stepped"} =>
            /\ heap[Len(heap)].loss_calculator.kind = "gBCE"
            /\ heap[Len(heap)].loss_calculator.n_actual_items = catalog_size - n_tokens
            /\ heap[Len(heap)].loss_calculator.gbce_t = frame.gbce_t
       /\ (pc = "gbce_stepped" /\ ~outcome.raised) =>
            LET alpha == Val(outcome.alpha)
            IN /\ alpha[2] > 0
               /\ alpha[1] * (catalog_size - n_tokens - 1) = alpha[2] * n_negatives
       /\ (pc = "gbce_stepped" /\ n_negatives >= 1
                /\ n_negatives = catalog_size - n_tokens - 1) =>
            /\ ~outcome.raised
            /\ outcome.alpha = Some(<<1, 1>>)
            /\ outcome.beta = Some(<<1, 1>>)

C28_Witness ==
    /\ pc = "gbce_stepped"
    /\ calculator.kind = "gBCE"
    /\ calculator.n_actual_items = 3
    /\ Val(data_preparator.n_negatives) = 2
    /\ calculator.gbce_t = <<3, 4>>
    /\ outcome.beta = Some(<<1, 1>>)

\* The rows of the dataset given to recommend that belong to external user
\* u and to an item known to the model, in ascending datetime.
OwnRows(u) ==
    LET known == Range(get_known_item_ids(data_preparator))
        own(r) == r.user = u /\ r.item \in known
    IN SelectSeq(sort_values(get_raw_interactions(dataset)), own)

\* The session embedding of external user u: the last hidden state of the
\* user's own left-padded, right-truncated session of model item ids.
OwnSessionEmbedding(u) ==
    LET rows == OwnRows(u)
        L == data_preparator.session_max_len
        n == Min2(Len(rows), L)
        x == [j \in 1..L |->
                IF j <= L - n THEN 0
                ELSE to_internal(Val(data_preparator.item_id_map),
                                 rows[Len(rows) - L + j].item)]
    IN [position |-> L, sessions |-> x]

\* The model item ids external user u has interacted with.
OwnViewedItems(u) ==
    {to_internal(Val(data_preparator.item_id_map), OwnRows(u)[j].item) :
        j \in 1..Len(OwnRows(u))}

(***************************************************************************)
(* C29: in _recommend_u2i on a dataset produced by transform_dataset_u2i,  *)
(* row i of the concatenated predict output is the session embedding of    *)
(* the user whose internal id is i (every user of the rebuilt user id map  *)
(* has an interaction), so user_embs[user_ids] pairs each requested user   *)
(* with that user's own session, the viewed-items filter row of subject i  *)
(* is that of user_ids[i], and every returned target id is a member of     *)
(* user_ids.                                                               *)
(***************************************************************************)
C29_RecommendPairing ==
    LET user_id_map == processed_dataset.user_id_map
    IN /\ pc \in {"recommend_predicted", "recommended"} =>
            /\ Len(frame.session_embs) = IdMap_size(user_id_map)
            /\ \A i \in 1..Len(frame.session_embs) :
                /\ Len(OwnRows(to_external(user_id_map, i - 1))) > 0
                /\ frame.session_embs[i] = OwnSessionEmbedding(to_external(user_id_map, i - 1))
       /\ pc = "recommended" =>
            /\ Len(outcome.user_embs) = Len(outcome.user_ids)
            /\ \A i \in 1..Len(outcome.user_ids) :
                LET u == to_external(user_id_map, outcome.user_ids[i])
                IN /\ outcome.user_embs[i] = OwnSessionEmbedding(u)
                   /\ outcome.filter_viewed => outcome.ui_csr_for_filter[i] = OwnViewedItems(u)
            /\ \A j \in 1..Len(outcome.all_target_ids) :
                outcome.all_target_ids[j] \in Range(outcome.user_ids)

C29_Witness ==
    /\ pc = "recommended"
    /\ IdMap_size(processed_dataset.user_id_map) = 2
    /\ outcome.user_ids = <<1, 0>>
    /\ outcome.filter_viewed
    /\ outcome.user_embs[1] # outcome.user_embs[2]
    /\ outcome.ui_csr_for_filter[1] # outcome.ui_csr_for_filter[2]
    /\ outcome.all_target_ids = <<1>>
    /\ frame.batch_size = 1

(***************************************************************************)
(* C30: _collate_fn_train itself truncates each session from the right to  *)
(* its last session_max_len + 1 items: for a session longer than           *)
(* session_max_len + 1 it returns, without raising, x, y and yw rows of    *)
(* length session_max_len that hold the most recent session_max_len        *)
(* transitions.                                                            *)
(***************************************************************************)
C30_TrainCollateTruncates ==
    pc = "collated_train" =>
        \A i \in 1..Len(batch) :
            LET ses == batch[i].ses
                ses_weights == batch[i].ses_weights
                L == data_preparator.session_max_len
                n == Len(ses)
            IN n > L + 1 =>
                /\ ~batch_dict.raises
                /\ Len(batch_dict.x[i]) = L
                /\ Len(batch_dict.y[i]) = L
                /\ Len(batch_dict.yw[i]) = L
                /\ \A j \in 1..L :
                    /\ batch_dict.x[i][j] = ses[n - L - 1 + j]
                    /\ batch_dict.y[i][j] = ses[n - L + j]
                    /\ batch_dict.yw[i][j] = ses_weights[n - L + j]

====
